---- MODULE Spec2Model ----
(***************************************************************************)
(* A model of cdecl's semantic declaration core: the AST node allocator    *)
(* and recursive free (src/src/ast.c), the kind taxonomy (src/src/c_kind.h)*)
(* and the bitmask type model with its dialect legality tables and its     *)
(* renderer (src/src/c_type.c); and of what surrounds it: the reading of   *)
(* files and command lines and the command test (src/src/cdecl.c), the     *)
(* match of a scoped name against a glob (src/src/c_sname.h), the joining  *)
(* of a type to a declarator (src/src/c_ast_util.h, src/src/ast_util.h),   *)
(* the report of an unknown name and the caret under an error              *)
(* (src/src/print.c), the completion of commands and keywords              *)
(* (src/src/autocomplete.c) and the prompt (src/src/prompt.c).             *)
(*                                                                         *)
(* Representation.  A c_type_t bitmask is modelled as the set of the names *)
(* of its set bits ("T_INT", ...): & is \cap, | is \cup, ~ is set          *)
(* difference, T_NONE is {}.  A c_lang_t bitmask is modelled as the set of *)
(* the dialects whose bit is set; the dialects are ordered as their bits   *)
(* are (LangOrder).  Strings are TLA+ strings, concatenated with \o.       *)
(***************************************************************************)
EXTENDS Integers, Sequences, FiniteSets, TLC

VARIABLES
  heap,         \* AST nodes ever allocated by c_ast_new, by node id
  c_ast_count,  \* ast.c: "allocated but not freed"
  ast_op,       \* the last AST / kind operation and its result
  dest_type,    \* the c_type_t being built / checked / named
  opt_lang,     \* the active dialect (options.h)
  c_mode,       \* the translation mode (options.h)
  type_op,      \* the last type operation and its result
  fin,          \* the input not yet read: the lines of the file or terminal
  fout,         \* what was written to the output, in order
  sbuf,         \* cdecl_read_line: the line being accumulated (sbuf->str)
  is_cont_line, \* cdecl_read_line: the last line read ended with a backslash
  ok,           \* parse_file: no line has failed so far
  io_op,        \* the operation in progress on the input or a name, and its result
  opt_explain,  \* options.h: explain-by-default
  inserted_len, \* cdecl.c: the length of what parse_string put before the string
  index,        \* autocomplete.c: static index of the generator being modelled
  text_len,     \* autocomplete.c: static text_len of that generator
  command,      \* autocomplete.c: keyword_completion's static command
  more_matches, \* autocomplete.c: keyword_completion's static more_matches
  rl_line_buffer, \* readline: the line being edited
  cdecl_prompt, \* prompt.c: the prompts in use, <<primary, continuation>>
  prompt_buf    \* prompt.c: the prompts made by cdecl_prompt_init

vars == <<heap, c_ast_count, ast_op, dest_type, opt_lang, c_mode, type_op,
          fin, fout, sbuf, is_cont_line, ok, io_op, opt_explain, inserted_len,
          index, text_len, command, more_matches, rl_line_buffer,
          cdecl_prompt, prompt_buf>>

io_vars == <<fin, fout, sbuf, is_cont_line, ok, io_op>>

ast_vars == <<heap, c_ast_count, ast_op>>

type_vars == <<dest_type, opt_lang, c_mode, type_op>>

NULL == "NULL"

\* the statics of the completion functions and of the prompt
rl_vars == <<index, text_len, command, more_matches, rl_line_buffer,
             cdecl_prompt, prompt_buf>>

\* the state of the command-line front end
cli_vars == <<opt_explain, inserted_len, rl_vars>>

\* the statics of autocomplete.c and prompt.c at program start: zero
Idle_rl ==
  /\ index = 0
  /\ text_len = 0
  /\ command = NULL
  /\ more_matches = FALSE
  /\ rl_line_buffer = ""
  /\ cdecl_prompt = << NULL, NULL >>
  /\ prompt_buf = << NULL, NULL >>

\* the front end at program start: explain-by-default off, nothing inserted
Idle_cli ==
  /\ opt_explain = FALSE
  /\ inserted_len = 0
  /\ Idle_rl

----------------------------------------------------------------------------
(* Bounds of the model. *)

\* most bits in a type built with c_type_add
MaxAddBits == 3

\* most bits in a type handed to c_type_check
MaxCheckBits == 2

\* most bits in a type handed to c_type_name
MaxNameBits == 2

\* most AST nodes allocated
MaxNodes == 2

----------------------------------------------------------------------------
(* c_lang.h: dialects, in the order of their bits. *)

LangOrder ==
  << "C_KNR", "C_89", "C_95", "C_99", "C_11",
     "CPP_98", "CPP_03", "CPP_11", "CPP_14", "CPP_17" >>

LangIdx(l) == CHOOSE i \in 1..Len(LangOrder) : LangOrder[i] = l

LANG_NONE == {}

LANG_ALL == { LangOrder[i] : i \in 1..Len(LangOrder) }

\* ~(LANG_L - 1): L and every dialect whose bit is higher
LANG_MIN(l) == { LangOrder[i] : i \in LangIdx(l)..Len(LangOrder) }

\* LANG_L | (LANG_L - 1): L and every dialect whose bit is lower
LANG_MAX(l) == { LangOrder[i] : i \in 1..LangIdx(l) }

LANG_CPP_MIN == "CPP_98"

LANG_CPP_ALL == LANG_MIN(LANG_CPP_MIN)

\* opt_lang >= LANG_L, a comparison of single-bit values
LangGE(lang, l) == LangIdx(lang) >= LangIdx(l)

MODE_ENGLISH_TO_GIBBERISH == "english_to_gibberish"

MODE_GIBBERISH_TO_ENGLISH == "gibberish_to_english"

----------------------------------------------------------------------------
(* c_type.c: the info tables. *)

T_NONE == {}

TI(t, lit, eng, langs) ==
  [type |-> t, literal |-> lit, english |-> eng, ok_langs |-> langs]

C_ATTRIBUTE_INFO == <<
  TI("T_CARRIES_DEPENDENCY", "carries_dependency", "carries-dependency", LANG_MIN("CPP_11")),
  TI("T_DEPRECATED",   "deprecated",   NULL,             LANG_MIN("CPP_11")),
  TI("T_MAYBE_UNUSED", "maybe_unused", "maybe-unused",   LANG_MIN("CPP_17")),
  TI("T_NODISCARD",    "nodiscard",    "non-discardable", LANG_MIN("CPP_11")),
  TI("T_NORETURN",     "_Noreturn",    "non-returning",  {"C_11"} \cup LANG_MIN("CPP_11"))
>>

C_QUALIFIER_INFO == <<
  TI("T_ATOMIC",    "_Atomic",   "atomic",     LANG_MIN("C_11")),
  TI("T_CONST",     "const",     "constant",   LANG_MIN("C_89")),
  TI("T_REFERENCE", "reference", NULL,         LANG_MIN("CPP_11")),
  TI("T_RVALUE_REFERENCE", "rvalue reference", NULL, LANG_MIN("CPP_11")),
  TI("T_RESTRICT",  "restrict",  "restricted", LANG_MIN("C_89") \ LANG_CPP_ALL),
  TI("T_VOLATILE",  "volatile",  NULL,         LANG_MIN("C_89"))
>>

C_STORAGE_INFO == <<
  TI("T_AUTO_C",       "auto",         "automatic", LANG_MAX("CPP_03")),
  TI("T_BLOCK",        "__block",      NULL,        LANG_ALL),
  TI("T_EXTERN",       "extern",       "external",  LANG_ALL),
  TI("T_REGISTER",     "register",     NULL,        LANG_ALL),
  TI("T_STATIC",       "static",       NULL,        LANG_ALL),
  TI("T_THREAD_LOCAL", "thread_local", NULL,        {"C_11"} \cup LANG_MIN("CPP_11")),
  TI("T_TYPEDEF",      "typedef",      NULL,        LANG_ALL),
  TI("T_CONSTEXPR",    "constexpr",    NULL,        LANG_MIN("CPP_11")),
  TI("T_FINAL",        "final",        NULL,        LANG_MIN("CPP_11")),
  TI("T_FRIEND",       "friend",       NULL,        LANG_CPP_ALL),
  TI("T_INLINE",       "inline",       NULL,        LANG_MIN("C_99")),
  TI("T_MUTABLE",      "mutable",      NULL,        LANG_MIN(LANG_CPP_MIN)),
  TI("T_NOEXCEPT",     "noexcept",     "no-exception", LANG_MIN("CPP_11")),
  TI("T_OVERRIDE",     "override",     "overridden", LANG_MIN("CPP_11")),
  TI("T_THROW",        "throw",        "non-throwing", LANG_MIN(LANG_CPP_MIN)),
  TI("T_VIRTUAL",      "virtual",      NULL,        LANG_CPP_ALL),
  TI("T_PURE_VIRTUAL", "pure",         NULL,        LANG_CPP_ALL)
>>

C_TYPE_INFO == <<
  TI("T_VOID",        "void",       NULL,          LANG_MIN("C_89")),
  TI("T_AUTO_CPP_11", "auto",       "automatic",   LANG_MIN("CPP_11")),
  TI("T_BOOL",        "bool",       NULL,          LANG_MIN("C_89")),
  TI("T_CHAR",        "char",       NULL,          LANG_ALL),
  TI("T_CHAR16_T",    "char16_t",   NULL,          {"C_11"} \cup LANG_MIN("CPP_11")),
  TI("T_CHAR32_T",    "char32_t",   NULL,          {"C_11"} \cup LANG_MIN("CPP_11")),
  TI("T_WCHAR_T",     "wchar_t",    NULL,          LANG_MIN("C_95")),
  TI("T_SHORT",       "short",      NULL,          LANG_ALL),
  TI("T_INT",         "int",        NULL,          LANG_ALL),
  TI("T_LONG",        "long",       NULL,          LANG_ALL),
  TI("T_LONG_LONG",   "long",       NULL,          LANG_MIN("C_89")),
  TI("T_SIGNED",      "signed",     NULL,          LANG_MIN("C_89")),
  TI("T_UNSIGNED",    "unsigned",   NULL,          LANG_ALL),
  TI("T_FLOAT",       "float",      NULL,          LANG_ALL),
  TI("T_DOUBLE",      "double",     NULL,          LANG_ALL),
  TI("T_COMPLEX",     "_Complex",   "complex",     LANG_MIN("C_99")),
  TI("T_IMAGINARY",   "_Imaginary", "imaginary",   LANG_MIN("C_99")),
  TI("T_ENUM",        "enum",       "enumeration", LANG_MIN("C_89")),
  TI("T_STRUCT",      "struct",     "structure",   LANG_ALL),
  TI("T_UNION",       "union",      NULL,          LANG_ALL),
  TI("T_CLASS",       "class",      NULL,          LANG_CPP_ALL),
  TI("T_TYPEDEF_TYPE", "",          NULL,          LANG_ALL)
>>

\* the shorthands of the legality tables
s__ == LANG_ALL

sXX == LANG_NONE

sKR == {"C_KNR"}

sC8 == LANG_MIN("C_89")

sC5 == LANG_MIN("C_95")

\* C9 written as LANG_C_99 instead of LANG_MIN(C_99)
sC9_only == {"C_99"}

sC9 == LANG_MIN("C_99")

sC1 == LANG_MIN("C_11")

sPP == LANG_CPP_ALL

sP3 == LANG_MIN("CPP_03")

sP1 == LANG_MIN("CPP_11")

sE1 == {"C_11"} \cup LANG_MIN("CPP_11")

OK_STORAGE_LANGS == <<
\*   a   b   e   r   s   tl  td    ce  fi  fr  in  mu  ne  o   t   v   pv
  << s__,s__,s__,s__,s__,s__,s__,  s__,s__,s__,s__,s__,s__,s__,s__,s__,s__ >>, \* auto
  << s__,s__,s__,s__,s__,s__,s__,  s__,s__,s__,s__,s__,s__,s__,s__,s__,s__ >>, \* block
  << sXX, s__,s__,s__,s__,s__,s__,  s__,s__,s__,s__,s__,s__,s__,s__,s__,s__ >>, \* extern
  << sXX, s__,sXX, s__,s__,s__,s__,  s__,s__,s__,s__,s__,s__,s__,s__,s__,s__ >>, \* register
  << sXX, sXX, sXX, sXX, s__,s__,s__,  s__,s__,s__,s__,s__,s__,s__,s__,s__,s__ >>, \* static
  << sXX, sE1, sE1, sXX, sE1, sE1, s__,  s__,s__,s__,s__,s__,s__,s__,s__,s__,s__ >>, \* thread_local
  << sXX, s__,sXX, sXX, sXX, sXX, s__,  s__,s__,s__,s__,s__,s__,s__,s__,s__,s__ >>, \* typedef
  << sP1, sP1, sP1, sXX, sP1, sXX, sXX,   sP1, s__,s__,s__,s__,s__,s__,s__,s__,s__ >>, \* constexpr
  << sXX, sXX, sXX, sXX, sXX, sXX, sXX,   sP1, sP1, s__,s__,s__,s__,s__,s__,s__,s__ >>, \* final
  << sXX, sXX, sXX, sXX, sXX, sXX, sXX,   sP1, sXX, sPP, s__,s__,s__,s__,s__,s__,s__ >>, \* friend
  << sXX, sXX, sC9, sXX, sC9, sXX, sXX,   sP1, sP1, sPP, sC9, s__,s__,s__,s__,s__,s__ >>, \* inline
  << sXX, sXX, sXX, sXX, sXX, sXX, sXX,   sXX, sXX, sXX, sXX, sP3, s__,s__,s__,s__,s__ >>, \* mutable
  << sXX, sXX, sP1, sXX, sP1, sXX, sP1,   sP1, sP1, sP1, sP1, sXX, sP1, s__,s__,s__,s__ >>, \* noexcept
  << sXX, sXX, sXX, sXX, sXX, sXX, sXX,   sP1, sP1, sXX, sC1, sXX, sC1, sP1, s__,s__,s__ >>, \* override
  << sXX, sXX, sPP, sXX, sPP, sXX, sPP,   sP1, sPP, sXX, sPP, sXX, sXX, sPP, sPP, s__,s__ >>, \* throw
  << sXX, sXX, sXX, sXX, sXX, sXX, sXX,   sP1, sP1, sXX, sPP, sXX, sC1, sP1, sPP, sPP, s__ >>, \* virtual
  << sXX, sXX, sXX, sXX, sXX, sXX, sXX,   sP1, sXX, sXX, sPP, sXX, sC1, sP1, sPP, sPP, sPP  >>  \* pure
>>

OK_TYPE_LANGS == <<
\*   v   a1  b   c   16  32  wc  s   i   l   ll  s   u   f   d   co  im  e   st  un  cl  t
  << sC8, s__,s__,s__,s__,s__,s__,s__,s__,s__,s__,s__,s__,s__,s__,s__,s__,s__,s__,s__,s__,s__ >>, \* void
  << sXX, sP1, s__,s__,s__,s__,s__,s__,s__,s__,s__,s__,s__,s__,s__,s__,s__,s__,s__,s__,s__,s__ >>, \* auto
  << sXX, sXX, sC9, s__,s__,s__,s__,s__,s__,s__,s__,s__,s__,s__,s__,s__,s__,s__,s__,s__,s__,s__ >>, \* bool
  << sXX, sXX, sXX, s__,s__,s__,s__,s__,s__,s__,s__,s__,s__,s__,s__,s__,s__,s__,s__,s__,s__,s__ >>, \* char
  << sXX, sXX, sXX, sXX, sE1, s__,s__,s__,s__,s__,s__,s__,s__,s__,s__,s__,s__,s__,s__,s__,s__,s__ >>, \* char16_t
  << sXX, sXX, sXX, sXX, sXX, sE1, s__,s__,s__,s__,s__,s__,s__,s__,s__,s__,s__,s__,s__,s__,s__,s__ >>, \* char32_t
  << sXX, sXX, sXX, sXX, sXX, sXX, sC5, s__,s__,s__,s__,s__,s__,s__,s__,s__,s__,s__,s__,s__,s__,s__ >>, \* wchar_t
  << sXX, sXX, sXX, sXX, sXX, sXX, sXX, s__,s__,s__,s__,s__,s__,s__,s__,s__,s__,s__,s__,s__,s__,s__ >>, \* short
  << sXX, sXX, sXX, sXX, sXX, sXX, sXX, s__,s__,s__,s__,s__,s__,s__,s__,s__,s__,s__,s__,s__,s__,s__ >>, \* int
  << sXX, sXX, sXX, sXX, sXX, sXX, sXX, sXX, s__,s__,s__,s__,s__,s__,s__,s__,s__,s__,s__,s__,s__,s__ >>, \* long
  << sXX, sXX, sXX, sXX, sXX, sXX, sXX, sXX, sC9, s__,sC9, s__,s__,s__,s__,s__,s__,s__,s__,s__,s__,s__ >>, \* long long
  << sXX, sXX, sXX, sC8, sXX, sXX, sXX, sC8, sC8, sC8, sC8, sC8, s__,s__,s__,s__,s__,s__,s__,s__,s__,s__ >>, \* signed
  << sXX, sXX, sXX, s__,sXX, sXX, sXX, s__,s__,s__,sC8, sXX, s__,s__,s__,s__,s__,s__,s__,s__,s__,s__ >>, \* unsigned
  << sXX, sXX, sXX, sXX, sXX, sXX, sXX, sXX, sXX, sKR, sXX, sXX, sXX, s__,s__,s__,s__,s__,s__,s__,s__,s__ >>, \* float
  << sXX, sXX, sXX, sXX, sXX, sXX, sXX, sXX, sXX, sC8, sXX, sXX, sXX, sXX, s__,s__,s__,s__,s__,s__,s__,s__ >>, \* double
  << sXX, sXX, sXX, sXX, sXX, sXX, sXX, sXX, sXX, sXX, sXX, sXX, sXX, sC9, sC9, sC9, s__,s__,s__,s__,s__,s__ >>, \* complex
  << sXX, sXX, sXX, sXX, sXX, sXX, sXX, sXX, sXX, sXX, sXX, sXX, sXX, sC9, sC9, sXX, sC9, s__,s__,s__,s__,s__ >>, \* imaginary
  << sXX, sXX, sXX, sXX, sXX, sXX, sXX, sXX, sXX, sXX, sXX, sXX, sXX, sXX, sXX, sXX, sXX, sC8, s__,s__,s__,s__ >>, \* enum
  << sXX, sXX, sXX, sXX, sXX, sXX, sXX, sXX, sXX, sXX, sXX, sXX, sXX, sXX, sXX, sXX, sXX, sP1, s__,s__,s__,s__ >>, \* struct
  << sXX, sXX, sXX, sXX, sXX, sXX, sXX, sXX, sXX, sXX, sXX, sXX, sXX, sXX, sXX, sXX, sXX, sXX, sXX, s__,s__,s__ >>, \* union
  << sXX, sXX, sXX, sXX, sXX, sXX, sXX, sXX, sXX, sXX, sXX, sXX, sXX, sXX, sXX, sXX, sXX, sP1, sXX, sXX, sPP, s__ >>, \* class
  << sXX, sXX, sXX, sXX, sXX, sXX, sXX, sXX, sXX, sXX, sXX, sXX, sXX, sXX, sXX, sXX, sXX, sXX, sXX, sXX, sXX, s__ >>  \* typedef type
>>

\* the bits of one info table
BitsOf(types) == { types[i].type : i \in 1..Len(types) }

T_MASK_ATTRIBUTE == BitsOf(C_ATTRIBUTE_INFO)

T_MASK_QUALIFIER == BitsOf(C_QUALIFIER_INFO)

T_MASK_STORAGE == BitsOf(C_STORAGE_INFO)

T_MASK_TYPE == BitsOf(C_TYPE_INFO)

AllBits == T_MASK_ATTRIBUTE \cup T_MASK_QUALIFIER \cup T_MASK_STORAGE \cup T_MASK_TYPE

----------------------------------------------------------------------------
(* c_type.c: c_type_add. *)

T_LONG == {"T_LONG"}

T_LONG_LONG == {"T_LONG_LONG"}

T_FLOAT == {"T_FLOAT"}

T_DOUBLE == {"T_DOUBLE"}

T_CHAR == {"T_CHAR"}

T_INT == {"T_INT"}

T_SHORT == {"T_SHORT"}

T_SIGNED == {"T_SIGNED"}

T_UNSIGNED == {"T_UNSIGNED"}

\* is_long_int without its test for float and double
is_long_int_any_long(type) == (type \cap T_LONG) # T_NONE

\* is_long_int with the test for float and double inverted
is_long_int_inverted(type) ==
  (type \cap T_LONG) # T_NONE /\ (type \cap (T_FLOAT \cup T_DOUBLE)) # T_NONE

is_long_int(type) ==
  (type \cap T_LONG) # T_NONE /\ (type \cap (T_FLOAT \cup T_DOUBLE)) = T_NONE

\* c_type_add without its test for a shared bit
c_type_add_unchecked(dest, new_type) ==
  LET new1 == IF is_long_int(dest) /\ is_long_int(new_type)
              THEN T_LONG_LONG ELSE new_type
  IN  [ret |-> TRUE, dest |-> dest \cup new1]

\* the value of *dest_type after the call, and the value returned
c_type_add(dest, new_type) ==
  LET new1 == IF is_long_int(dest) /\ is_long_int(new_type)
              THEN T_LONG_LONG ELSE new_type
  IN  IF (dest \cap new1) # T_NONE
      THEN [ret |-> FALSE, dest |-> dest]
      ELSE [ret |-> TRUE,  dest |-> dest \cup new1]

----------------------------------------------------------------------------
(* c_type.c: c_type_check. *)

RECURSIVE c_type_check_legal_row(_, _, _, _)
\* the loop of c_type_check_legal, from `row` on
c_type_check_legal_row(type, types, lang, row) ==
  IF row > Len(types) THEN LANG_ALL
  ELSE IF ({types[row].type} \cap type) # T_NONE
          /\ ({lang} \cap types[row].ok_langs) = LANG_NONE
       THEN types[row].ok_langs
       ELSE c_type_check_legal_row(type, types, lang, row + 1)

c_type_check_legal(type, types, lang) ==
  c_type_check_legal_row(type, types, lang, 1)

RECURSIVE c_type_check_combo_col_below(_, _, _, _, _, _)
\* the inner loop of c_type_check_combo with col < row: the diagonal skipped
c_type_check_combo_col_below(type, types, type_langs, lang, row, col) ==
  IF col >= row THEN [found |-> FALSE, ok_langs |-> LANG_ALL]
  ELSE IF ({types[col].type} \cap type) # T_NONE
          /\ ({lang} \cap type_langs[row][col]) = LANG_NONE
       THEN [found |-> TRUE, ok_langs |-> type_langs[row][col]]
       ELSE c_type_check_combo_col_below(type, types, type_langs, lang, row, col + 1)

RECURSIVE c_type_check_combo_col(_, _, _, _, _, _)
\* the inner loop of c_type_check_combo, from `col` on
c_type_check_combo_col(type, types, type_langs, lang, row, col) ==
  IF col > row THEN [found |-> FALSE, ok_langs |-> LANG_ALL]
  ELSE IF ({types[col].type} \cap type) # T_NONE
          /\ ({lang} \cap type_langs[row][col]) = LANG_NONE
       THEN [found |-> TRUE, ok_langs |-> type_langs[row][col]]
       ELSE c_type_check_combo_col(type, types, type_langs, lang, row, col + 1)

RECURSIVE c_type_check_combo_row(_, _, _, _, _)
\* the outer loop of c_type_check_combo, from `row` on
c_type_check_combo_row(type, types, type_langs, lang, row) ==
  IF row > Len(types) THEN LANG_ALL
  ELSE IF ({types[row].type} \cap type) # T_NONE
       THEN LET r == c_type_check_combo_col(type, types, type_langs, lang, row, 1)
            IN  IF r.found THEN r.ok_langs
                ELSE c_type_check_combo_row(type, types, type_langs, lang, row + 1)
       ELSE c_type_check_combo_row(type, types, type_langs, lang, row + 1)

c_type_check_combo(type, types, type_langs, lang) ==
  c_type_check_combo_row(type, types, type_langs, lang, 1)

\* c_type_check with the storage classes checked before the attributes
c_type_check_storage_first(type, lang) ==
  LET a == c_type_check_legal(type, C_ATTRIBUTE_INFO, lang)
      s == c_type_check_legal(type, C_STORAGE_INFO, lang)
      t == c_type_check_legal(type, C_TYPE_INFO, lang)
      q == c_type_check_legal(type, C_QUALIFIER_INFO, lang)
      sc == c_type_check_combo(type, C_STORAGE_INFO, OK_STORAGE_LANGS, lang)
      tc == c_type_check_combo(type, C_TYPE_INFO, OK_TYPE_LANGS, lang)
  IN  IF s # LANG_ALL THEN s
      ELSE IF a # LANG_ALL THEN a
      ELSE IF t # LANG_ALL THEN t
      ELSE IF q # LANG_ALL THEN q
      ELSE IF sc # LANG_ALL THEN sc
      ELSE IF tc # LANG_ALL THEN tc
      ELSE LANG_ALL

\* c_type_check with opt_lang = lang; each C_TYPE_CHECK returns when its
\* argument is not LANG_ALL
c_type_check(type, lang) ==
  LET a == c_type_check_legal(type, C_ATTRIBUTE_INFO, lang)
      s == c_type_check_legal(type, C_STORAGE_INFO, lang)
      t == c_type_check_legal(type, C_TYPE_INFO, lang)
      q == c_type_check_legal(type, C_QUALIFIER_INFO, lang)
      sc == c_type_check_combo(type, C_STORAGE_INFO, OK_STORAGE_LANGS, lang)
      tc == c_type_check_combo(type, C_TYPE_INFO, OK_TYPE_LANGS, lang)
  IN  IF a # LANG_ALL THEN a
      ELSE IF s # LANG_ALL THEN s
      ELSE IF t # LANG_ALL THEN t
      ELSE IF q # LANG_ALL THEN q
      ELSE IF sc # LANG_ALL THEN sc
      ELSE IF tc # LANG_ALL THEN tc
      ELSE LANG_ALL

----------------------------------------------------------------------------
(* c_type.c: c_type_name. *)

\* util.h: returns *flag; sets *flag when it was false
true_or_set(flag) == [ret |-> flag, flag |-> TRUE]

\* c_type_literal with the test of is_error dropped: English whenever the
\* mode is English-to-gibberish
c_type_literal_english_mode(t, is_error, mode) ==
  LET is_english == (mode = MODE_ENGLISH_TO_GIBBERISH)
  IN  IF is_english /\ t.english # NULL THEN t.english ELSE t.literal

c_type_literal(t, is_error, mode) ==
  LET is_english == (mode = MODE_ENGLISH_TO_GIBBERISH)
  IN  IF is_english = is_error /\ t.english # NULL THEN t.english ELSE t.literal

HasRow(types, type) == \E i \in 1..Len(types) : types[i].type = type

FirstRow(types, type) ==
  types[CHOOSE i \in 1..Len(types) :
          /\ types[i].type = type
          /\ \A j \in 1..(i - 1) : types[j].type # type]

INTERNAL_ERR == "INTERNAL_ERR"

\* `type` is the name of one bit
c_type_name_1(type, is_error, lang, mode) ==
  IF HasRow(C_ATTRIBUTE_INFO, type) THEN
    LET literal == c_type_literal(FirstRow(C_ATTRIBUTE_INFO, type), is_error, mode)
    IN  IF literal = "_Noreturn" /\ LangGE(lang, LANG_CPP_MIN)
        THEN "noreturn" ELSE literal
  ELSE IF HasRow(C_QUALIFIER_INFO, type) THEN
    c_type_literal(FirstRow(C_QUALIFIER_INFO, type), is_error, mode)
  ELSE IF HasRow(C_STORAGE_INFO, type) THEN
    c_type_literal(FirstRow(C_STORAGE_INFO, type), is_error, mode)
  ELSE IF HasRow(C_TYPE_INFO, type) THEN
    c_type_literal(FirstRow(C_TYPE_INFO, type), is_error, mode)
  ELSE INTERNAL_ERR

RECURSIVE c_type_name_cat_always_sep(_, _, _, _, _, _, _, _, _)
\* the loop of c_type_name_cat writing the separator before every word
c_type_name_cat_always_sep(name, type, types, is_error, sep, psep, lang, mode, i) ==
  IF i > Len(types) THEN [name |-> name, psep |-> psep]
  ELSE IF ({types[i]} \cap type) # T_NONE
       THEN LET n2 == name \o sep \o c_type_name_1(types[i], is_error, lang, mode)
            IN  c_type_name_cat_always_sep(n2, type, types, is_error, sep, TRUE,
                                           lang, mode, i + 1)
       ELSE c_type_name_cat_always_sep(name, type, types, is_error, sep, psep,
                                       lang, mode, i + 1)

RECURSIVE c_type_name_cat_from(_, _, _, _, _, _, _, _, _)
\* the loop of c_type_name_cat, from index i on; yields the name and *psep
c_type_name_cat_from(name, type, types, is_error, sep, psep, lang, mode, i) ==
  IF i > Len(types) THEN [name |-> name, psep |-> psep]
  ELSE IF ({types[i]} \cap type) # T_NONE
       THEN LET ts == true_or_set(psep)
                n1 == IF ts.ret THEN name \o sep ELSE name
                n2 == n1 \o c_type_name_1(types[i], is_error, lang, mode)
            IN  c_type_name_cat_from(n2, type, types, is_error, sep, ts.flag,
                                     lang, mode, i + 1)
       ELSE c_type_name_cat_from(name, type, types, is_error, sep, psep,
                                 lang, mode, i + 1)

c_type_name_cat(name, type, types, is_error, sep, psep, lang, mode) ==
  c_type_name_cat_from(name, type, types, is_error, sep, psep, lang, mode, 1)

C_ATTRIBUTE ==
  << "T_CARRIES_DEPENDENCY", "T_DEPRECATED", "T_MAYBE_UNUSED", "T_NODISCARD",
     "T_NORETURN" >>

C_STORAGE_CLASS ==
  << "T_AUTO_C", "T_BLOCK", "T_EXTERN", "T_FRIEND", "T_REGISTER", "T_MUTABLE",
     "T_STATIC", "T_THREAD_LOCAL", "T_TYPEDEF", "T_PURE_VIRTUAL", "T_VIRTUAL",
     "T_INLINE",
     "T_OVERRIDE", "T_FINAL", "T_NOEXCEPT", "T_THROW",
     "T_CONSTEXPR" >>

C_QUALIFIER ==
  << "T_CONST", "T_RESTRICT", "T_VOLATILE", "T_REFERENCE", "T_RVALUE_REFERENCE",
     "T_ATOMIC" >>

C_TYPE ==
  << "T_SIGNED", "T_UNSIGNED",
     "T_LONG", "T_SHORT",
     "T_VOID", "T_AUTO_CPP_11", "T_BOOL", "T_CHAR", "T_CHAR16_T", "T_CHAR32_T",
     "T_WCHAR_T", "T_LONG_LONG", "T_INT", "T_COMPLEX", "T_IMAGINARY", "T_FLOAT",
     "T_DOUBLE", "T_ENUM", "T_STRUCT", "T_UNION", "T_CLASS" >>

\* the attribute part with brackets in every dialect
c_type_name_attributes_any_lang(type, is_error, lang, mode) ==
  IF (type \cap T_MASK_ATTRIBUTE) # T_NONE THEN
    LET brackets == /\ mode = MODE_ENGLISH_TO_GIBBERISH
                    /\ ~is_error
        sep == IF brackets THEN "," ELSE " "
        n0 == IF brackets THEN "[[" ELSE ""
        r == c_type_name_cat(n0, type, C_ATTRIBUTE, is_error, sep, FALSE, lang, mode)
        n1 == IF brackets THEN r.name \o "]]" ELSE r.name
    IN  [name |-> n1, psep |-> TRUE]
  ELSE [name |-> "", psep |-> FALSE]

\* the attribute part: the name so far and the flag `space`
c_type_name_attributes(type, is_error, lang, mode) ==
  IF (type \cap T_MASK_ATTRIBUTE) # T_NONE THEN
    LET brackets == /\ LangGE(lang, LANG_CPP_MIN)
                    /\ mode = MODE_ENGLISH_TO_GIBBERISH
                    /\ ~is_error
        sep == IF brackets THEN "," ELSE " "
        n0 == IF brackets THEN "[[" ELSE ""
        r == c_type_name_cat(n0, type, C_ATTRIBUTE, is_error, sep, FALSE, lang, mode)
        n1 == IF brackets THEN r.name \o "]]" ELSE r.name
    IN  [name |-> n1, psep |-> TRUE]
  ELSE [name |-> "", psep |-> FALSE]

\* the elisions with T_LONG_LONG missing from the int modifiers
c_type_name_elide_no_long_long(type) ==
  LET t1 == IF (type \cap T_CHAR) = T_NONE THEN type \ T_SIGNED ELSE type
  IN  IF (t1 \cap (T_UNSIGNED \cup T_SHORT \cup T_LONG)) # T_NONE
      THEN t1 \ T_INT ELSE t1

\* the two elisions before the base type is rendered
c_type_name_elide(type) ==
  LET t1 == IF (type \cap T_CHAR) = T_NONE THEN type \ T_SIGNED ELSE type
  IN  IF (t1 \cap (T_UNSIGNED \cup T_SHORT \cup T_LONG \cup T_LONG_LONG)) # T_NONE
      THEN t1 \ T_INT ELSE t1

c_type_name_impl(type, is_error, lang, mode) ==
  LET a == c_type_name_attributes(type, is_error, lang, mode)
      s == c_type_name_cat(a.name, type, C_STORAGE_CLASS, is_error, " ", a.psep, lang, mode)
      q == c_type_name_cat(s.name, type, C_QUALIFIER, is_error, " ", s.psep, lang, mode)
      t == c_type_name_cat(q.name, c_type_name_elide(type), C_TYPE, is_error, " ",
                           q.psep, lang, mode)
  IN  t.name

c_type_name(type, lang, mode) == c_type_name_impl(type, FALSE, lang, mode)

c_type_name_error(type, lang, mode) == c_type_name_impl(type, TRUE, lang, mode)

----------------------------------------------------------------------------
(* c_kind.h: enum c_kind_id. *)

K_NONE == 0

K_PLACEHOLDER == 1

K_BUILTIN == 2

K_NAME == 4

K_TYPEDEF == 8

K_VARIADIC == 16

K_ARRAY == 128

K_ENUM_CLASS_STRUCT_UNION == 256

K_POINTER == 512

K_POINTER_TO_MEMBER == 1024

K_REFERENCE == 2048

K_RVALUE_REFERENCE == 4096

K_CONSTRUCTOR == 8192

K_DESTRUCTOR == 16384

K_APPLE_BLOCK == 32768

K_FUNCTION == 65536

K_OPERATOR == 131072

K_USER_DEF_CONVERSION == 262144

K_USER_DEF_LITERAL == 524288

\* the enumerators of c_kind_id
KindEnum ==
  { K_NONE, K_PLACEHOLDER, K_BUILTIN, K_NAME, K_TYPEDEF, K_VARIADIC, K_ARRAY,
    K_ENUM_CLASS_STRUCT_UNION, K_POINTER, K_POINTER_TO_MEMBER, K_REFERENCE,
    K_RVALUE_REFERENCE, K_CONSTRUCTOR, K_DESTRUCTOR, K_APPLE_BLOCK, K_FUNCTION,
    K_OPERATOR, K_USER_DEF_CONVERSION, K_USER_DEF_LITERAL }

\* ast.c spells two kinds by their older names
K_BLOCK == K_APPLE_BLOCK

K_PTR_TO_MEMBER == K_POINTER_TO_MEMBER

RECURSIVE BitAnd(_, _)
\* a & b, on naturals
BitAnd(a, b) ==
  IF a = 0 \/ b = 0 THEN 0
  ELSE (a % 2) * (b % 2) + 2 * BitAnd(a \div 2, b \div 2)

RECURSIVE BitCount(_)
\* the number of set bits of n
BitCount(n) == IF n = 0 THEN 0 ELSE (n % 2) + BitCount(n \div 2)

----------------------------------------------------------------------------
(* ast.c: c_kind_name. *)

\* c_kind_name with opt_lang = lang
c_kind_name(kind, lang) ==
  CASE kind = K_NONE          -> "none"
    [] kind = K_ARRAY         -> "array"
    [] kind = K_BLOCK         -> "block"
    [] kind = K_BUILTIN       -> "built-in type"
    [] kind = K_FUNCTION      -> "function"
    [] kind = K_NAME          -> "name"
    [] kind = K_POINTER       -> "pointer"
    [] kind = K_PTR_TO_MEMBER -> "pointer-to-member"
    [] kind = K_REFERENCE     -> "reference"
    [] kind = K_ENUM_CLASS_STRUCT_UNION ->
         IF LangGE(lang, LANG_CPP_MIN) THEN "enum, class, struct, or union"
         ELSE IF LangGE(lang, "C_89") THEN "enum, struct, or union"
         ELSE "struct or union"
    [] OTHER -> INTERNAL_ERR

----------------------------------------------------------------------------
(* ast.c: the nodes, c_ast_new and c_ast_free.  A node id is an index of    *)
(* heap; 0 is the null pointer.                                            *)

NullAst == 0

\* c_ast_new tagging a pointer-to-member as a pointer as well
c_ast_new_also_pointer(kind) ==
  [ kind    |-> IF kind = K_POINTER_TO_MEMBER THEN K_POINTER + K_POINTER_TO_MEMBER
                ELSE kind,
    of_ast  |-> NullAst,
    to_ast  |-> NullAst,
    ret_ast |-> NullAst,
    args    |-> << >>,
    parent  |-> NullAst,
    freed   |-> FALSE,
    depth   |-> 0,
    size    |-> 0,
    qualifier |-> T_NONE,
    type    |-> T_NONE,
    name    |-> NULL,
    class_name |-> NULL ]

\* memset( ast, 0, sizeof( c_ast_t ) ); ast->kind = kind
c_ast_new(kind) ==
  [ kind    |-> kind,
    of_ast  |-> NullAst,      \* as.array.of_ast, as.ptr_mbr.of_ast
    to_ast  |-> NullAst,      \* as.ptr_ref.to_ast
    ret_ast |-> NullAst,      \* as.func.ret_ast
    args    |-> << >>,        \* as.func.args, head first
    parent  |-> NullAst,      \* the owner, a back-reference
    freed   |-> FALSE,        \* c_ast_free has been called on the node
    depth   |-> 0,            \* how many parentheses enclose the node
    size    |-> 0,            \* as.array.size
    qualifier |-> T_NONE,     \* as.ptr_ref.qualifier, as.ptr_mbr.qualifier
    type    |-> T_NONE,       \* as.type
    name    |-> NULL,
    class_name |-> NULL ]     \* as.ptr_mbr.class_name

RECURSIVE c_ast_free_args(_, _, _)
RECURSIVE c_ast_free(_, _)
\* the nodes c_ast_free( ast ) is called on, itself and recursively: one
\* decrement of c_ast_count each
c_ast_free(h, ast) ==
  IF ast = NullAst THEN {}
  ELSE {ast} \cup
    ( CASE h[ast].kind = K_ARRAY ->
             IF h[ast].of_ast # NullAst THEN c_ast_free(h, h[ast].of_ast) ELSE {}
        [] h[ast].kind \in {K_BLOCK, K_FUNCTION} ->
             c_ast_free_args(h, h[ast].args, 1)
        [] h[ast].kind = K_PTR_TO_MEMBER -> c_ast_free(h, h[ast].of_ast)
        [] h[ast].kind \in {K_POINTER, K_REFERENCE} ->
             c_ast_free(h, h[ast].to_ast)
        [] OTHER -> {} )

\* the loop over as.func.args: arg, arg->next, ...
c_ast_free_args(h, args, i) ==
  IF i > Len(args) THEN {}
  ELSE c_ast_free(h, args[i]) \cup c_ast_free_args(h, args, i + 1)

\* the nodes a node owns directly: its child slots
Owned(h, n) ==
  ({ h[n].of_ast, h[n].to_ast, h[n].ret_ast }
     \cup { h[n].args[i] : i \in 1..Len(h[n].args) }) \ { NullAst }

RECURSIVE TreeFrom(_, _, _)
\* the nodes reachable from the nodes S over ownership edges, in at most k
\* steps
TreeFrom(h, S, k) ==
  IF k = 0 THEN S
  ELSE TreeFrom(h, S \cup UNION { Owned(h, n) : n \in S }, k - 1)

\* the tree of root
Tree(h, root) == TreeFrom(h, {root}, Len(h))

----------------------------------------------------------------------------
(* Input sets. *)

RECURSIVE TypesUpTo(_, _)
\* every type with at most n bits of `bits`
TypesUpTo(bits, n) ==
  IF n = 0 THEN { T_NONE }
  ELSE LET s == TypesUpTo(bits, n - 1)
       IN  s \cup { t \cup {b} : t \in s, b \in bits }

\* the bits the parser hands to c_type_add in this model: the integer and
\* floating families that the long rewrite is about, and one bit of each
\* other axis
AddBits ==
  { "T_INT", "T_LONG", "T_LONG_LONG", "T_FLOAT", "T_DOUBLE", "T_UNSIGNED",
    "T_CHAR", "T_SHORT", "T_SIGNED", "T_CONST", "T_STATIC", "T_NORETURN" }

\* one token's type, or the merged type of two
AddTypes == TypesUpTo(AddBits, 2) \ { T_NONE }

\* no input is being read and nothing has been written
Idle_io ==
  /\ fin = <<>>
  /\ fout = <<>>
  /\ sbuf = NULL
  /\ is_cont_line = FALSE
  /\ ok = TRUE
  /\ io_op = [op |-> "none"]
  /\ Idle_cli

Idle_ast ==
  /\ heap = << >>
  /\ c_ast_count = 0
  /\ ast_op = [op |-> "none"]

----------------------------------------------------------------------------
(* SpecAdd: a type is built with c_type_add. *)

InitAdd ==
  /\ Idle_ast
  /\ Idle_io
  /\ dest_type = T_NONE
  /\ opt_lang = "C_11"
  /\ c_mode = MODE_ENGLISH_TO_GIBBERISH
  /\ type_op = [op |-> "none"]

TypeAdd ==
  \E new_type \in AddTypes :
    LET r == c_type_add(dest_type, new_type)
    IN  /\ Cardinality(r.dest) <= MaxAddBits
        /\ dest_type' = r.dest
        /\ type_op' = [op |-> "add", old |-> dest_type, new |-> new_type,
                       ret |-> r.ret]
        /\ UNCHANGED <<opt_lang, c_mode>>
        /\ UNCHANGED <<ast_vars, io_vars, cli_vars>>

NextAdd == TypeAdd

SpecAdd == InitAdd /\ [][NextAdd]_vars

----------------------------------------------------------------------------
(* SpecCheck: finished types are checked against the active dialect. *)

InitCheck ==
  /\ Idle_ast
  /\ Idle_io
  /\ dest_type \in TypesUpTo(AllBits, MaxCheckBits)
  /\ opt_lang \in LANG_ALL
  /\ c_mode = MODE_ENGLISH_TO_GIBBERISH
  /\ type_op = [op |-> "none"]

TypeCheck ==
  /\ type_op.op = "none"
  /\ type_op' = [op |-> "check", ret |-> c_type_check(dest_type, opt_lang)]
  /\ UNCHANGED <<dest_type, opt_lang, c_mode>>
  /\ UNCHANGED <<ast_vars, io_vars, cli_vars>>

NextCheck == TypeCheck

SpecCheck == InitCheck /\ [][NextCheck]_vars

----------------------------------------------------------------------------
(* SpecName: types are rendered. *)

\* one dialect before and one from LANG_CPP_MIN on, of each family
NameLangs == { "C_KNR", "C_11", "CPP_98", "CPP_17" }

InitName ==
  /\ Idle_ast
  /\ Idle_io
  /\ dest_type \in TypesUpTo(AllBits, MaxNameBits)
  /\ opt_lang \in NameLangs
  /\ c_mode \in { MODE_ENGLISH_TO_GIBBERISH, MODE_GIBBERISH_TO_ENGLISH }
  /\ type_op = [op |-> "none"]

TypeName ==
  /\ type_op.op = "none"
  /\ type_op' = [op |-> "name", is_error |-> FALSE,
                 ret |-> c_type_name(dest_type, opt_lang, c_mode)]
  /\ UNCHANGED <<dest_type, opt_lang, c_mode>>
  /\ UNCHANGED <<ast_vars, io_vars, cli_vars>>

TypeNameError ==
  /\ type_op.op = "none"
  /\ type_op' = [op |-> "name", is_error |-> TRUE,
                 ret |-> c_type_name_error(dest_type, opt_lang, c_mode)]
  /\ UNCHANGED <<dest_type, opt_lang, c_mode>>
  /\ UNCHANGED <<ast_vars, io_vars, cli_vars>>

NextName == TypeName \/ TypeNameError

SpecName == InitName /\ [][NextName]_vars

----------------------------------------------------------------------------
(* Claims about c_type_add (SpecAdd). *)

Added == type_op.op = "add"

\* the case the long rewrite applies to, spelled out bit by bit
LongOntoLong(old, new) ==
  /\ "T_LONG" \in old /\ "T_LONG" \in new
  /\ old \cap {"T_FLOAT", "T_DOUBLE"} = {}
  /\ new \cap {"T_FLOAT", "T_DOUBLE"} = {}
  /\ "T_LONG_LONG" \notin old

\* C2 as stated: c_type_add returns false and leaves *dest unchanged
\* whenever the added type shares a set bit with *dest; in every other case
\* it returns true and *dest becomes the bitwise-or of the old *dest and the
\* added type.
C2_AddConflictOrUnion ==
  Added =>
    IF type_op.old \cap type_op.new # {}
    THEN ~type_op.ret /\ dest_type = type_op.old
    ELSE type_op.ret /\ dest_type = type_op.old \cup type_op.new

\* C2 as amended: as C2, except that when both *dest and the added type have
\* long and neither float nor double and *dest has no long-long bit, the call
\* returns true and *dest gains exactly the long-long bit.
C2_AddConflictUnionOrLongLong ==
  Added =>
    IF LongOntoLong(type_op.old, type_op.new)
    THEN type_op.ret /\ dest_type = type_op.old \cup {"T_LONG_LONG"}
    ELSE IF type_op.old \cap type_op.new # {}
    THEN ~type_op.ret /\ dest_type = type_op.old
    ELSE type_op.ret /\ dest_type = type_op.old \cup type_op.new

\* an int added to a type that already has int was refused
C2_Witness ==
  /\ Added
  /\ type_op.old = {"T_INT", "T_UNSIGNED"}
  /\ type_op.new = {"T_INT"}
  /\ ~type_op.ret

\* C3: adding "long" to a type that contains long and no float, double or
\* long long succeeds and yields the old type plus the long-long bit, every
\* other bit preserved; from exactly "long" the result is named "long long".
C3_LongLong ==
  ( /\ Added
    /\ type_op.new = {"T_LONG"}
    /\ "T_LONG" \in type_op.old
    /\ type_op.old \cap {"T_FLOAT", "T_DOUBLE", "T_LONG_LONG"} = {} )
  => /\ type_op.ret
     /\ dest_type = type_op.old \cup {"T_LONG_LONG"}
     /\ type_op.old = {"T_LONG"} =>
          /\ dest_type = {"T_LONG", "T_LONG_LONG"}
          /\ c_type_name(dest_type, opt_lang, c_mode) = "long long"

\* "long" was added to "unsigned long"
C3_Witness ==
  /\ Added
  /\ type_op.old = {"T_UNSIGNED", "T_LONG"}
  /\ type_op.new = {"T_LONG"}
  /\ dest_type = {"T_UNSIGNED", "T_LONG", "T_LONG_LONG"}

----------------------------------------------------------------------------
(* Claims about c_type_check (SpecCheck). *)

Checked == type_op.op = "check"

\* the rows of an info table whose bit is set and is not legal in lang
IllegalRows(type, types, lang) ==
  { row \in 1..Len(types) :
      types[row].type \in type /\ lang \notin types[row].ok_langs }

\* the lower-triangle entries (diagonal included) whose two bits are set and
\* whose pair is not legal in lang
IllegalPairs(type, types, type_langs, lang) ==
  { p \in (1..Len(types)) \X (1..Len(types)) :
      /\ p[2] <= p[1]
      /\ types[p[1]].type \in type
      /\ types[p[2]].type \in type
      /\ lang \notin type_langs[p[1]][p[2]] }

\* C4: c_type_check returns LANG_ALL if and only if every set bit is legal in
\* the active dialect by its info table and every pair of set bits, the
\* diagonal included, of the storage axis and of the base-type axis is legal
\* by the lower triangle of its table.
C4_CheckIffLegal ==
  Checked =>
    ( type_op.ret = LANG_ALL
      <=> /\ IllegalRows(dest_type, C_ATTRIBUTE_INFO, opt_lang) = {}
          /\ IllegalRows(dest_type, C_STORAGE_INFO, opt_lang) = {}
          /\ IllegalRows(dest_type, C_TYPE_INFO, opt_lang) = {}
          /\ IllegalRows(dest_type, C_QUALIFIER_INFO, opt_lang) = {}
          /\ IllegalPairs(dest_type, C_STORAGE_INFO, OK_STORAGE_LANGS, opt_lang) = {}
          /\ IllegalPairs(dest_type, C_TYPE_INFO, OK_TYPE_LANGS, opt_lang) = {} )

\* "bool" alone in C89: the bit is legal, the diagonal pair is not
C4_Witness ==
  /\ Checked
  /\ dest_type = {"T_BOOL"}
  /\ opt_lang = "C_89"
  /\ type_op.ret = LANG_MIN("C_99")

MinOf(S) == CHOOSE x \in S : \A y \in S : x <= y

FirstIllegalRow(type, types, lang) ==
  types[MinOf(IllegalRows(type, types, lang))].ok_langs

FirstIllegalPair(type, types, type_langs, lang) ==
  LET ps == IllegalPairs(type, types, type_langs, lang)
      row == MinOf({ p[1] : p \in ps })
      col == MinOf({ p[2] : p \in { q \in ps : q[1] = row } })
  IN  type_langs[row][col]

\* how many of the six checks the type fails
ViolatedChecks(type, lang) ==
  Cardinality(
    { k \in 1..6 :
        \/ k = 1 /\ IllegalRows(type, C_ATTRIBUTE_INFO, lang) # {}
        \/ k = 2 /\ IllegalRows(type, C_STORAGE_INFO, lang) # {}
        \/ k = 3 /\ IllegalRows(type, C_TYPE_INFO, lang) # {}
        \/ k = 4 /\ IllegalRows(type, C_QUALIFIER_INFO, lang) # {}
        \/ k = 5 /\ IllegalPairs(type, C_STORAGE_INFO, OK_STORAGE_LANGS, lang) # {}
        \/ k = 6 /\ IllegalPairs(type, C_TYPE_INFO, OK_TYPE_LANGS, lang) # {} })

Chains ==
  { << "C_KNR", "C_89", "C_95", "C_99", "C_11" >>,
    << "CPP_98", "CPP_03", "CPP_11", "CPP_14", "CPP_17" >> }

\* the dialects after lang on its chain
Newer(lang) ==
  { l \in LANG_ALL :
      \E ch \in Chains : \E i, j \in 1..Len(ch) :
        i < j /\ ch[i] = lang /\ ch[j] = l }

\* C6 as stated: a type c_type_check reports legal in dialect L is reported
\* legal in every newer dialect of L's chain.
C6_Monotone ==
  (Checked /\ type_op.ret = LANG_ALL) =>
    \A l \in Newer(opt_lang) : c_type_check(dest_type, l) = LANG_ALL

\* C6 as amended: a type that has neither the auto storage class nor both
\* long and float, and that c_type_check reports legal in dialect L, is
\* reported legal in every newer dialect of L's chain.
C6_MonotoneButAutoAndLongFloat ==
  ( /\ Checked
    /\ type_op.ret = LANG_ALL
    /\ "T_AUTO_C" \notin dest_type
    /\ ~({"T_LONG", "T_FLOAT"} \subseteq dest_type) )
  => \A l \in Newer(opt_lang) : c_type_check(dest_type, l) = LANG_ALL

\* "long long" is legal in C99, which has a newer dialect, and was not legal
\* in C95
C6_Witness ==
  /\ Checked
  /\ dest_type = {"T_LONG", "T_LONG_LONG"}
  /\ opt_lang = "C_99"
  /\ type_op.ret = LANG_ALL
  /\ c_type_check(dest_type, "C_95") # LANG_ALL
  /\ Newer(opt_lang) # {}

----------------------------------------------------------------------------
(* Claims about c_type_name (SpecName). *)

Named == type_op.op = "name" /\ ~type_op.is_error

\* the characters that end a word in a rendered type
Delimiters == { " ", ",", "[", "]" }

\* w occurs in s as a whole word
HasWord(s, w) ==
  \E i \in 1..(Len(s) - Len(w) + 1) :
    /\ SubSeq(s, i, i + Len(w) - 1) = w
    /\ i = 1 \/ SubSeq(s, i - 1, i - 1) \in Delimiters
    /\ \/ i + Len(w) - 1 = Len(s)
       \/ SubSeq(s, i + Len(w), i + Len(w)) \in Delimiters

IntModifiers == {"T_UNSIGNED", "T_SHORT", "T_LONG", "T_LONG_LONG"}

\* C9: in the name, "signed" is omitted unless the type has char, "int" is
\* omitted whenever unsigned, short, long or long long is set, and the name
\* of a type with signed and without char is the name of the type with the
\* signed bit cleared.
C9_Elisions ==
  Named =>
    /\ HasWord(type_op.ret, "signed")
         <=> ("T_SIGNED" \in dest_type /\ "T_CHAR" \in dest_type)
    /\ HasWord(type_op.ret, "int")
         <=> ("T_INT" \in dest_type /\ dest_type \cap IntModifiers = {})
    /\ ("T_SIGNED" \in dest_type /\ "T_CHAR" \notin dest_type)
         => type_op.ret = c_type_name(dest_type \ {"T_SIGNED"}, opt_lang, c_mode)

\* "signed int" was named "int"; "unsigned int" is named "unsigned" and
\* "signed char" keeps its signed
C9_Witness ==
  /\ Named
  /\ dest_type = {"T_SIGNED", "T_INT"}
  /\ type_op.ret = "int"
  /\ c_type_name({"T_UNSIGNED", "T_INT"}, opt_lang, c_mode) = "unsigned"
  /\ c_type_name({"T_SIGNED", "T_CHAR"}, opt_lang, c_mode) = "signed char"

\* the position of a bit in the fixed order of the rendering: the
\* attributes; the storage classes one by one; the qualifiers one by one;
\* signed/unsigned; long/short; the specific base words
OrderRank(b) ==
  LET storage == << "T_AUTO_C", "T_BLOCK", "T_EXTERN", "T_FRIEND", "T_REGISTER",
                    "T_MUTABLE", "T_STATIC", "T_THREAD_LOCAL", "T_TYPEDEF",
                    "T_PURE_VIRTUAL", "T_VIRTUAL", "T_INLINE", "T_OVERRIDE",
                    "T_FINAL", "T_NOEXCEPT", "T_THROW", "T_CONSTEXPR" >>
      quals == << "T_CONST", "T_RESTRICT", "T_VOLATILE", "T_REFERENCE",
                  "T_RVALUE_REFERENCE", "T_ATOMIC" >>
  IN  IF b \in T_MASK_ATTRIBUTE THEN 0
      ELSE IF \E i \in 1..Len(storage) : storage[i] = b
      THEN CHOOSE i \in 1..Len(storage) : storage[i] = b
      ELSE IF \E i \in 1..Len(quals) : quals[i] = b
      THEN Len(storage) + (CHOOSE i \in 1..Len(quals) : quals[i] = b)
      ELSE IF b \in {"T_SIGNED", "T_UNSIGNED"} THEN Len(storage) + Len(quals) + 1
      ELSE IF b \in {"T_LONG", "T_SHORT"} THEN Len(storage) + Len(quals) + 2
      ELSE Len(storage) + Len(quals) + 3

\* the set bits that have a word in the name: not the elided signed and int,
\* and not the typedef-type bit, whose literal is empty
Rendered(type) ==
  { b \in type :
      /\ b # "T_TYPEDEF_TYPE"
      /\ b = "T_SIGNED" => "T_CHAR" \in type
      /\ b = "T_INT" => type \cap IntModifiers = {} }

\* the enumerations of the set S that follow the fixed order
InOrder(S) ==
  { f \in [1..Cardinality(S) -> S] :
      /\ \A i, j \in 1..Cardinality(S) : i # j => f[i] # f[j]
      /\ \A i, j \in 1..Cardinality(S) : i < j => OrderRank(f[i]) <= OrderRank(f[j]) }

RECURSIVE JoinFrom(_, _, _, _, _, _)
\* the words of f[i..n], each after the first preceded by sep
JoinFrom(f, i, n, sep, lang, mode) ==
  IF i > n THEN ""
  ELSE (IF i > 1 THEN sep ELSE "")
       \o c_type_name_1(f[i], FALSE, lang, mode)
       \o JoinFrom(f, i + 1, n, sep, lang, mode)

Join(f, n, sep, lang, mode) == JoinFrom(f, 1, n, sep, lang, mode)

Bracketed ==
  /\ dest_type \cap T_MASK_ATTRIBUTE # {}
  /\ opt_lang \in LANG_CPP_ALL
  /\ c_mode = MODE_ENGLISH_TO_GIBBERISH

InfoOf(b) ==
  IF HasRow(C_ATTRIBUTE_INFO, b) THEN FirstRow(C_ATTRIBUTE_INFO, b)
  ELSE IF HasRow(C_QUALIFIER_INFO, b) THEN FirstRow(C_QUALIFIER_INFO, b)
  ELSE IF HasRow(C_STORAGE_INFO, b) THEN FirstRow(C_STORAGE_INFO, b)
  ELSE FirstRow(C_TYPE_INFO, b)

\* the rendered bits that have both a gibberish and an English spelling
TwoSpellings(type) == { b \in Rendered(type) : InfoOf(b).english # NULL }

\* w occurs in s
Contains(s, w) ==
  \E i \in 1..(Len(s) - Len(w) + 1) : SubSeq(s, i, i + Len(w) - 1) = w

\* the name just rendered spells bit b in English
PicksEnglish(b) == Contains(type_op.ret, InfoOf(b).english)

AttributesRendered(brackets) ==
  LET attrs == dest_type \cap T_MASK_ATTRIBUTE
      n == Cardinality(attrs)
  IN  \E f \in InOrder(attrs) :
        LET group == IF brackets
                     THEN "[[" \o Join(f, n, ",", opt_lang, c_mode) \o "]]"
                     ELSE Join(f, n, " ", opt_lang, c_mode)
        IN  /\ Len(type_op.ret) >= Len(group)
            /\ SubSeq(type_op.ret, 1, Len(group)) = group
            /\ ~brackets =>
                 ~Contains(type_op.ret, "[") /\ ~Contains(type_op.ret, "]")
                 /\ ~Contains(type_op.ret, ",")

\* C12 as stated: c_type_name brackets and comma-joins the attributes
\* whenever the mode is English-to-gibberish, in every dialect, and
\* space-joins them without brackets in every other case.
C12_BracketsInEveryDialect ==
  (Named /\ dest_type \cap T_MASK_ATTRIBUTE # {}) =>
    AttributesRendered(c_mode = MODE_ENGLISH_TO_GIBBERISH)

\* C12 as amended: c_type_name brackets and comma-joins the attributes
\* exactly when the mode is English-to-gibberish and the dialect is
\* LANG_CPP_MIN or newer; in every other case they are space-joined and no
\* bracket is emitted.
C12_BracketsInCpp ==
  (Named /\ dest_type \cap T_MASK_ATTRIBUTE # {}) =>
    AttributesRendered(Bracketed)

\* two attributes were named without brackets in C11, English-to-gibberish
C12_Witness ==
  /\ Named
  /\ dest_type = {"T_DEPRECATED", "T_NORETURN"}
  /\ opt_lang = "C_11"
  /\ c_mode = MODE_ENGLISH_TO_GIBBERISH
  /\ type_op.ret = "deprecated _Noreturn"

----------------------------------------------------------------------------
(* SpecAst: nodes are allocated, attached into trees and freed. *)

Idle_type ==
  /\ dest_type = T_NONE
  /\ c_mode = MODE_ENGLISH_TO_GIBBERISH
  /\ type_op = [op |-> "none"]

InitAst ==
  /\ Idle_type
  /\ Idle_io
  /\ opt_lang = "C_11"
  /\ heap = << >>
  /\ c_ast_count = 0
  /\ ast_op = [op |-> "none"]

Live(n) == n \in 1..Len(heap) /\ ~heap[n].freed

AstNew ==
  \E kind \in KindEnum :
    /\ Len(heap) < MaxNodes
    /\ heap' = Append(heap, c_ast_new(kind))
    /\ c_ast_count' = c_ast_count + 1
    /\ ast_op' = [op |-> "new", ast |-> Len(heap) + 1, kind |-> kind]
    /\ UNCHANGED <<type_vars, io_vars, cli_vars>>

\* the grammar's attachments: an unattached tree c becomes a child of p
Attachable(p, c) ==
  /\ Live(p) /\ Live(c)
  /\ heap[c].parent = NullAst
  /\ p \notin Tree(heap, c)

\* array->as.array.of_ast = c, pointer-to-member likewise
AttachOf ==
  \E p, c \in 1..Len(heap) :
    /\ Attachable(p, c)
    /\ heap[p].kind \in {K_ARRAY, K_PTR_TO_MEMBER}
    /\ heap[p].of_ast = NullAst
    /\ heap' = [heap EXCEPT ![p].of_ast = c, ![c].parent = p]
    /\ ast_op' = [op |-> "attach", ast |-> p]
    /\ UNCHANGED c_ast_count
    /\ UNCHANGED <<type_vars, io_vars, cli_vars>>

\* ptr->as.ptr_ref.to_ast = c
AttachTo ==
  \E p, c \in 1..Len(heap) :
    /\ Attachable(p, c)
    /\ heap[p].kind \in {K_POINTER, K_REFERENCE}
    /\ heap[p].to_ast = NullAst
    /\ heap' = [heap EXCEPT ![p].to_ast = c, ![c].parent = p]
    /\ ast_op' = [op |-> "attach", ast |-> p]
    /\ UNCHANGED c_ast_count
    /\ UNCHANGED <<type_vars, io_vars, cli_vars>>

\* func->as.func.ret_ast = c
AttachRet ==
  \E p, c \in 1..Len(heap) :
    /\ Attachable(p, c)
    /\ heap[p].kind \in {K_BLOCK, K_FUNCTION}
    /\ heap[p].ret_ast = NullAst
    /\ heap' = [heap EXCEPT ![p].ret_ast = c, ![c].parent = p]
    /\ ast_op' = [op |-> "attach", ast |-> p]
    /\ UNCHANGED c_ast_count
    /\ UNCHANGED <<type_vars, io_vars, cli_vars>>

\* c is appended to func->as.func.args
AttachArg ==
  \E p, c \in 1..Len(heap) :
    /\ Attachable(p, c)
    /\ heap[p].kind \in {K_BLOCK, K_FUNCTION}
    /\ heap' = [heap EXCEPT ![p].args = Append(@, c), ![c].parent = p]
    /\ ast_op' = [op |-> "attach", ast |-> p]
    /\ UNCHANGED c_ast_count
    /\ UNCHANGED <<type_vars, io_vars, cli_vars>>

\* c_ast_free( root ) at the end of a command
AstFree ==
  \E root \in 1..Len(heap) :
    /\ Live(root)
    /\ heap[root].parent = NullAst
    /\ LET F == c_ast_free(heap, root)
       IN  /\ heap' = [n \in 1..Len(heap) |->
                         IF n \in F THEN [heap[n] EXCEPT !.freed = TRUE]
                         ELSE heap[n]]
           /\ c_ast_count' = c_ast_count - Cardinality(F)
           /\ ast_op' = [op |-> "free", ast |-> root,
                         nodes |-> Cardinality(Tree(heap, root)),
                         before |-> c_ast_count]
    /\ UNCHANGED <<type_vars, io_vars, cli_vars>>

NextAst == AstNew \/ AttachOf \/ AttachTo \/ AttachRet \/ AttachArg \/ AstFree

SpecAst == InitAst /\ [][NextAst]_vars

----------------------------------------------------------------------------
(* SpecKind: c_kind_name is asked for the name of a kind value. *)

\* values of c_kind_t that are no enumerator: two unused bits and a
\* bitwise-or of kinds
OtherKindValues == { 32, 64, K_POINTER + K_REFERENCE }

InitKind ==
  /\ Idle_type
  /\ Idle_io
  /\ Idle_ast
  /\ opt_lang \in LANG_ALL

KindName ==
  \E kind \in KindEnum \cup OtherKindValues :
    /\ ast_op' = [op |-> "kind_name", kind |-> kind,
                  ret |-> c_kind_name(kind, opt_lang)]
    /\ UNCHANGED <<heap, c_ast_count>>
    /\ UNCHANGED <<type_vars, io_vars, cli_vars>>

NextKind == KindName

SpecKind == InitKind /\ [][NextKind]_vars

----------------------------------------------------------------------------
(* Claims about the AST nodes (SpecAst) and c_kind_name (SpecKind). *)

\* C1: c_ast_free on the root of a tree of N nodes decrements c_ast_count by
\* exactly N.
C1_FreeDecrementsByTreeSize ==
  ast_op.op = "free" => c_ast_count = ast_op.before - ast_op.nodes

\* C7 as stated: every node produced by c_ast_new has a kind with exactly one
\* bit set, and the kind values are pairwise disjoint.
C7_ExactlyOneKindBit ==
  /\ \A n \in 1..Len(heap) : BitCount(heap[n].kind) = 1
  /\ \A a, b \in KindEnum : a # b => BitAnd(a, b) = 0

\* C7 as amended: every node has the kind c_ast_new was given, which is
\* K_NONE or has exactly one bit set, never a bitwise-or of several kinds,
\* whatever is attached or freed afterwards; the non-zero kind values are
\* single bits, and a node's kind shares no bit with any other kind of the
\* enumeration.
C7_AtMostOneKindBit ==
  /\ \A n \in 1..Len(heap) :
       /\ heap[n].kind \in KindEnum
       /\ heap[n].kind = K_NONE \/ BitCount(heap[n].kind) = 1
  /\ ast_op.op = "new" => heap[ast_op.ast].kind = ast_op.kind
  /\ \A a \in KindEnum \ {K_NONE} : BitCount(a) = 1
  /\ \A n \in 1..Len(heap) : \A a \in KindEnum :
       a # heap[n].kind => BitAnd(a, heap[n].kind) = 0

\* a pointer-to-member node has been given a K_NONE node as its child
C7_Witness ==
  /\ Len(heap) = 2
  /\ heap[1].kind = K_POINTER_TO_MEMBER
  /\ heap[2].kind = K_NONE
  /\ heap[1].of_ast = 2

\* the kinds the closed enumeration names
NamedKinds == KindEnum \ {K_NONE}

\* C8: c_kind_name returns a name for every kind of the enumeration and
\* raises the internal error only for a value that is none of them.
C8_KindNameTotal ==
  ast_op.op = "kind_name" =>
    (ast_op.ret = INTERNAL_ERR => ast_op.kind \notin NamedKinds)

----------------------------------------------------------------------------
(* cdecl.c: parse_file (SpecFile).  A line of the file is modelled by its   *)
(* length in bytes, newline included, and by whether parse_string accepts  *)
(* it; what parse_string makes of a piece of a line is not determined.      *)

\* most lines in a file or in the terminal input
MaxLines == 3

\* sizeof buf in parse_file
BufSize == 1024

\* the line lengths tried: short, the longest fgets returns whole, longer
LineLens == { 12, BufSize - 1, BufSize, 2 * BufSize }

FileLines == [ len : LineLens, good : BOOLEAN ]

\* the sequences of at most n elements of S
SeqUpTo(S, n) == UNION { [1..k -> S] : k \in 0..n }

\* the type and AST models are idle and no line is being accumulated
Idle_rest ==
  /\ Idle_type
  /\ opt_lang = "C_11"
  /\ Idle_ast
  /\ fout = <<>>
  /\ sbuf = NULL
  /\ is_cont_line = FALSE

\* parse_file is entered: ok = true, nothing read yet
InitFile ==
  /\ Idle_rest
  /\ Idle_cli
  /\ \E f \in SeqUpTo(FileLines, MaxLines) :
       /\ fin = [ i \in 1..Len(f) |-> [len |-> f[i].len, good |-> f[i].good,
                                     line |-> i, from |-> 0] ]
       /\ io_op = [op |-> "parse_file", file |-> f, handed |-> <<>>,
                   done |-> FALSE]
  /\ ok = TRUE

\* fgets( buf, sizeof buf, file ): at most sizeof buf - 1 bytes of the line
fgets(line) == IF line.len < BufSize - 1 THEN line.len ELSE BufSize - 1

\* one iteration of the loop of parse_file: fgets, parse_string, ok
ParseFileLine ==
  /\ io_op.op = "parse_file" /\ ~io_op.done
  /\ fin # <<>>
  /\ LET line == Head(fin)
         n == fgets(line)
         whole == line.from = 0 /\ n = line.len
     IN  \E r \in (IF whole THEN {line.good} ELSE BOOLEAN) :
           /\ fin' = IF n = line.len THEN Tail(fin)
                     ELSE << [line EXCEPT !.len = line.len - n,
                                          !.from = line.from + n] >> \o Tail(fin)
           /\ io_op' = [io_op EXCEPT !.handed =
                          Append(@, [line |-> line.line, from |-> line.from,
                                     len |-> n, ret |-> r])]
           /\ ok' = IF ~r THEN FALSE ELSE ok
  /\ UNCHANGED <<fout, sbuf, is_cont_line>>
  /\ UNCHANGED <<ast_vars, type_vars, cli_vars>>

\* fgets returns NULL: parse_file returns ok
ParseFileReturn ==
  /\ io_op.op = "parse_file" /\ ~io_op.done
  /\ fin = <<>>
  /\ io_op' = [io_op EXCEPT !.done = TRUE]
  /\ UNCHANGED <<fin, fout, sbuf, is_cont_line, ok>>
  /\ UNCHANGED <<ast_vars, type_vars, cli_vars>>

NextFile == ParseFileLine \/ ParseFileReturn

SpecFile == InitFile /\ [][NextFile]_vars

\* parse_file has returned
FileDone == io_op.op = "parse_file" /\ io_op.done

\* C13: parse_file hands every line of the file to parse_string, in order
\* and also after an earlier line failed, and returns true if and only if
\* every line parsed successfully.
C13_EveryLineParsed ==
  FileDone =>
    /\ Len(io_op.handed) = Len(io_op.file)
    /\ \A i \in 1..Len(io_op.file) :
         /\ i <= Len(io_op.handed)
         /\ io_op.handed[i].line = i
         /\ io_op.handed[i].from = 0
         /\ io_op.handed[i].len = io_op.file[i].len
    /\ ok <=> \A i \in 1..Len(io_op.file) : io_op.file[i].good

\* What parse_file does: every byte of the file is handed to parse_string, in
\* order, in pieces of at most BufSize - 1 bytes that do not span lines, also
\* after an earlier piece failed; the result is true if and only if
\* parse_string accepted every piece.
C13_EveryPieceParsed ==
  FileDone =>
    /\ \A k \in 1..Len(io_op.handed) :
         LET h == io_op.handed[k]
         IN  /\ h.len <= BufSize - 1
             /\ h.from + h.len <= io_op.file[h.line].len
             /\ IF k = 1 THEN h.line = 1 /\ h.from = 0
                ELSE LET g == io_op.handed[k - 1]
                     IN  \/ h.line = g.line /\ h.from = g.from + g.len
                         \/ /\ h.line = g.line + 1 /\ h.from = 0
                            /\ g.from + g.len = io_op.file[g.line].len
    /\ io_op.file # <<>> =>
         LET g == io_op.handed[Len(io_op.handed)]
         IN  g.line = Len(io_op.file) /\ g.from + g.len = io_op.file[g.line].len
    /\ ok <=> \A k \in 1..Len(io_op.handed) : io_op.handed[k].ret

----------------------------------------------------------------------------
(* cdecl.c: cdecl_read_line, called in the loop of parse_stdin             *)
(* (SpecReadLine).  A line is a string; io_op.with_readline tells which of *)
(* the two builds reads it: readline() returns the line without its        *)
(* newline, getline() with it.                                             *)

\* most characters in a line typed at the terminal
MaxLineLen == 2

LineChars == << "a", " ", "\\" >>

RECURSIVE LinesOfLen(_)
\* the lines of exactly n characters
LinesOfLen(n) ==
  IF n = 0 THEN { "" }
  ELSE { s \o LineChars[i] : s \in LinesOfLen(n - 1), i \in 1..Len(LineChars) }

TerminalLines == UNION { LinesOfLen(n) : n \in 0..MaxLineLen }

\* util.h: s has only whitespace
is_blank_line(s) ==
  \A i \in 1..Len(s) : SubSeq(s, i, i) \in { " ", "\n" }

\* util.h: the last character of s is c
ends_with_chr(s, s_len, c) == s_len > 0 /\ SubSeq(s, s_len, s_len) = c

\* strbuf.h: the first n characters of s are appended to the buffer
strbuf_catsn(buf, s, n) == (IF buf = NULL THEN "" ELSE buf) \o SubSeq(s, 1, n)

\* readline( prompt ) or getline( &line, &line_cap, fin ) on the next line
ReadOf(text) == IF io_op.with_readline THEN text ELSE text \o "\n"

\* cdecl_read_line is entered for the first time
InitReadLine ==
  /\ Idle_type
  /\ Idle_cli
  /\ Idle_ast
  /\ opt_lang = "C_11"
  /\ fin \in SeqUpTo(TerminalLines, MaxLines)
  /\ fout = <<>>
  /\ sbuf = NULL
  /\ is_cont_line = FALSE
  /\ ok = TRUE
  /\ \E b \in BOOLEAN :
       io_op = [op |-> "read_line", with_readline |-> b, read |-> <<>>,
                ret |-> "none"]

\* the prompt of this iteration is written
Prompted == Append(fout, IF is_cont_line THEN "ps2" ELSE "ps1")

\* the lines read by this call, with the prompt each was read at
ReadNow == Append(io_op.read, [text |-> Head(fin),
                               prompt |-> IF is_cont_line THEN "ps2" ELSE "ps1"])

\* the code after the loop: the two assertions, then return true; a buffer
\* that fails them aborts the program, or is returned when assert is
\* compiled out
AfterLoop(buf) ==
  IF buf # NULL /\ buf # "" THEN { "true" } ELSE { "abort", "true" }

\* an iteration that finds the end of the input: return false
ReadLineEOF ==
  /\ io_op.op = "read_line" /\ io_op.ret = "none"
  /\ fin = <<>>
  /\ fout' = Prompted
  /\ io_op' = [io_op EXCEPT !.ret = "false"]
  /\ UNCHANGED <<fin, sbuf, is_cont_line, ok>>
  /\ UNCHANGED <<ast_vars, type_vars, cli_vars>>

\* an iteration that reads a blank line: it ends a continuation and is
\* ignored otherwise
ReadLineBlank ==
  /\ io_op.op = "read_line" /\ io_op.ret = "none"
  /\ fin # <<>>
  /\ is_blank_line(ReadOf(Head(fin)))
  /\ fout' = Prompted
  /\ fin' = Tail(fin)
  /\ IF is_cont_line
     THEN \E r \in AfterLoop(sbuf) :
            io_op' = [io_op EXCEPT !.read = ReadNow, !.ret = r]
     ELSE io_op' = [io_op EXCEPT !.read = ReadNow]
  /\ UNCHANGED <<sbuf, is_cont_line, ok>>
  /\ UNCHANGED <<ast_vars, type_vars, cli_vars>>

\* an iteration that reads a line with text: it is appended without its
\* final backslash, and ends the loop unless it had one
ReadLineText ==
  /\ io_op.op = "read_line" /\ io_op.ret = "none"
  /\ fin # <<>>
  /\ ~is_blank_line(ReadOf(Head(fin)))
  /\ LET line == ReadOf(Head(fin))
         line_len == Len(line)
         cont == ends_with_chr(line, line_len, "\\")
         buf == strbuf_catsn(sbuf, line, line_len - (IF cont THEN 1 ELSE 0))
     IN  /\ is_cont_line' = cont
         /\ sbuf' = buf
         /\ IF cont
            THEN io_op' = [io_op EXCEPT !.read = ReadNow]
            ELSE \E r \in AfterLoop(buf) :
                   io_op' = [io_op EXCEPT !.read = ReadNow, !.ret = r]
  /\ fout' = Prompted
  /\ fin' = Tail(fin)
  /\ UNCHANGED ok
  /\ UNCHANGED <<ast_vars, type_vars, cli_vars>>

\* parse_stdin: the line is parsed and freed and cdecl_read_line is called
\* again
ReadLineAgain ==
  /\ io_op.op = "read_line" /\ io_op.ret = "true"
  /\ \E r \in BOOLEAN : ok' = r
  /\ sbuf' = NULL
  /\ is_cont_line' = FALSE
  /\ io_op' = [io_op EXCEPT !.read = <<>>, !.ret = "none"]
  /\ UNCHANGED <<fin, fout>>
  /\ UNCHANGED <<ast_vars, type_vars, cli_vars>>

NextReadLine == ReadLineEOF \/ ReadLineBlank \/ ReadLineText \/ ReadLineAgain

SpecReadLine == InitReadLine /\ [][NextReadLine]_vars

\* s has a character that is not whitespace
HasText(s) == \E i \in 1..Len(s) : SubSeq(s, i, i) \notin { " ", "\n" }

\* C14: cdecl_read_line returns false only at end of input, and whenever it
\* returns the accumulated line is non-empty and not whitespace-only, so
\* that its two final assertions never fail.
C14_ReturnsNonBlankLine ==
  io_op.op = "read_line" =>
    /\ io_op.ret = "false" => fin = <<>>
    /\ io_op.ret # "abort"
    /\ io_op.ret = "true" => (sbuf # NULL /\ sbuf # "" /\ HasText(sbuf))


\* the line as typed ends with a backslash
EndsWithBackslash(text) == ends_with_chr(text, Len(text), "\\")

\* the line as typed without its final backslash
Stitched(text) ==
  IF EndsWithBackslash(text) THEN SubSeq(text, 1, Len(text) - 1) ELSE text

RECURSIVE StitchedFrom(_, _)
\* the non-blank lines of r[k..], stitched
StitchedFrom(r, k) ==
  IF k > Len(r) THEN ""
  ELSE (IF is_blank_line(r[k].text) THEN "" ELSE Stitched(r[k].text))
       \o StitchedFrom(r, k + 1)

RECURSIVE WithoutNewlines(_)
WithoutNewlines(s) ==
  IF s = "" THEN ""
  ELSE (IF SubSeq(s, 1, 1) = "\n" THEN "" ELSE SubSeq(s, 1, 1))
       \o WithoutNewlines(SubSeq(s, 2, Len(s)))

\* line k of r ends the accumulation: it has text and no final backslash, or
\* it is a blank line directly after a line with a final backslash
EndsAccumulation(r, k) ==
  IF is_blank_line(r[k].text)
  THEN k > 1 /\ EndsWithBackslash(r[k - 1].text)
  ELSE ~EndsWithBackslash(r[k].text)

\* C15: cdecl_read_line prompts with ps1 for the first line and with ps2 for
\* each line read directly after a line that ended with a backslash; the text
\* it returns is the concatenation, in input order, of the non-blank lines
\* read with each final backslash removed; and it stops reading at the first
\* line without a final backslash, or at a blank line after a continuation.
C15_Stitches ==
  (io_op.op = "read_line" /\ io_op.ret = "true") =>
    LET r == io_op.read
    IN  /\ r # <<>>
        /\ r[1].prompt = "ps1"
        /\ \A k \in 2..Len(r) :
             EndsWithBackslash(r[k - 1].text) => r[k].prompt = "ps2"
        /\ WithoutNewlines(sbuf) = StitchedFrom(r, 1)
        /\ EndsAccumulation(r, Len(r))
        /\ \A k \in 1..(Len(r) - 1) : ~EndsAccumulation(r, k)

\* C15 in the build with readline only
ReadlineStitches == io_op.with_readline => C15_Stitches

----------------------------------------------------------------------------
(* cdecl.c: starts_with_token and is_command (SpecToken).  A C string is a  *)
(* TLA+ string; the character at its end is NUL.                           *)

\* the terminating null byte
NUL == "NUL"

\* s[i], counting from 0
CharAt(s, i) == IF i < Len(s) THEN SubSeq(s, i + 1, i + 1) ELSE NUL

Alnum == "abcdefghijklmnopqrstuvwxyzABCDEFGHIJKLMNOPQRSTUVWXYZ0123456789"

\* util.h: c may be part of an identifier
is_ident(c) ==
  c = "_" \/ \E i \in 1..Len(Alnum) : SubSeq(Alnum, i, i) = c

\* <ctype.h>
isspace(c) == c \in { " ", "\t", "\n" }

\* the first n characters of s, or all of s if it is shorter
strn(s, n) == IF Len(s) < n THEN s ELSE SubSeq(s, 1, n)

\* strncmp( s, t, n ) == 0
strncmp_equal(s, t, n) == strn(s, n) = strn(t, n)

RECURSIVE SKIP_WS(_)
\* util.h: s without its leading whitespace
SKIP_WS(s) ==
  IF s # "" /\ isspace(CharAt(s, 0)) THEN SKIP_WS(SubSeq(s, 2, Len(s))) ELSE s

\* starts_with_token with the character after the token taken from s
starts_with_token_in_s(s, token, token_len) ==
  strncmp_equal(s, token, token_len) /\ ~is_ident(CharAt(s, token_len))

starts_with_token(s, token, token_len) ==
  strncmp_equal(s, token, token_len) /\ ~is_ident(CharAt(token, token_len))

\* the literals of CDECL_COMMANDS, in order
CDECL_COMMANDS ==
  << "cast", "class", "const", "declare", "define", "dynamic", "enum", "exit",
     "explain", "help", "namespace", "quit", "reinterpret", "set", "show",
     "static", "struct", "typedef", "union", "using" >>

\* s with its first n characters dropped
Skip(s, n) == SubSeq(s, n + 1, Len(s))

RECURSIVE is_command_from_any_const(_, _)
\* is_command without the special case for const and static: either word is
\* a command whatever follows it
is_command_from_any_const(s, i) ==
  IF i > Len(CDECL_COMMANDS) THEN FALSE
  ELSE LET literal == CDECL_COMMANDS[i]
       IN  IF ~starts_with_token(s, literal, Len(literal))
           THEN is_command_from_any_const(s, i + 1)
           ELSE TRUE

RECURSIVE is_command_from(_, _)
\* the loop of is_command over CDECL_COMMANDS[i..], for C_COMMAND_ANY
is_command_from(s, i) ==
  IF i > Len(CDECL_COMMANDS) THEN FALSE
  ELSE LET literal == CDECL_COMMANDS[i]
           literal_len == Len(literal)
       IN  IF ~starts_with_token(s, literal, literal_len)
           THEN is_command_from(s, i + 1)
           ELSE IF literal \in { "const", "static" }
           THEN LET p == Skip(s, literal_len)
                    q == SKIP_WS(p)
                IN  /\ isspace(CharAt(p, 0))
                    /\ starts_with_token(q, "cast", 4)
                    /\ isspace(CharAt(q, 4))
           ELSE TRUE

\* is_command( s, C_COMMAND_ANY )
is_command(s) == is_command_from(SKIP_WS(s), 1)

\* what may follow the first word of a line
Suffixes == { "", " ", "x", "_t", "9", "(", " x", " cast", " cast p", " castx p" }

\* the first words tried: the commands and two words that are none
FirstWords ==
  { CDECL_COMMANDS[i] : i \in 1..Len(CDECL_COMMANDS) } \cup { "int", "x" }

InitToken ==
  /\ Idle_rest
  /\ Idle_cli
  /\ fin = <<>>
  /\ ok = TRUE
  /\ \E w \in FirstWords, x \in Suffixes, sp \in { "", " " } :
       io_op = [op |-> "line", s |-> sp \o w \o x]

StartsWithToken ==
  /\ io_op.op = "line"
  /\ \E i \in 1..Len(CDECL_COMMANDS) :
       LET token == CDECL_COMMANDS[i]
       IN  io_op' = [op |-> "starts_with_token", s |-> io_op.s, token |-> token,
                     ret |-> starts_with_token(io_op.s, token, Len(token))]
  /\ UNCHANGED <<fin, fout, sbuf, is_cont_line, ok>>
  /\ UNCHANGED <<ast_vars, type_vars, cli_vars>>

IsCommand ==
  /\ io_op.op = "line"
  /\ io_op' = [op |-> "is_command", s |-> io_op.s, ret |-> is_command(io_op.s)]
  /\ UNCHANGED <<fin, fout, sbuf, is_cont_line, ok>>
  /\ UNCHANGED <<ast_vars, type_vars, cli_vars>>

NextToken == StartsWithToken \/ IsCommand

SpecToken == InitToken /\ [][NextToken]_vars

\* s is word followed by a character that is not of an identifier
BeginsWithWord(s, word) ==
  /\ Len(s) >= Len(word)
  /\ SubSeq(s, 1, Len(word)) = word
  /\ ~is_ident(CharAt(s, Len(word)))

\* C20: starts_with_token returns true only if s begins with the token and
\* the character of s directly after the token is not an identifier
\* character; so is_command does not take an identifier that merely has a
\* command word as its prefix for that command.
C20_TokenEndsAtBoundary ==
  /\ (io_op.op = "starts_with_token" /\ io_op.ret) =>
       BeginsWithWord(io_op.s, io_op.token)
  /\ (io_op.op = "is_command" /\ io_op.ret) =>
       \E i \in 1..Len(CDECL_COMMANDS) :
         BeginsWithWord(SKIP_WS(io_op.s), CDECL_COMMANDS[i])

----------------------------------------------------------------------------
(* c_sname.h: c_sname_match (SpecMatch).  A scoped name is the sequence of *)
(* its scope names, outermost first; a glob is a string.                   *)

\* most scopes in a scoped name
MaxScopes == 3

RECURSIVE SplitGlob(_, _)
\* the components of glob, which "::" separates; cur is the component begun
SplitGlob(glob, cur) ==
  IF glob = "" THEN << cur >>
  ELSE IF Len(glob) >= 2 /\ SubSeq(glob, 1, 2) = "::"
  THEN << cur >> \o SplitGlob(SubSeq(glob, 3, Len(glob)), "")
  ELSE SplitGlob(SubSeq(glob, 2, Len(glob)), cur \o SubSeq(glob, 1, 1))

RECURSIVE scope_match_any_char(_, _)
\* the match of one scope name that ends with the glob: what is left of the
\* name then is not looked at
scope_match_any_char(name, glob) ==
  IF glob = "" THEN TRUE
  ELSE IF SubSeq(glob, 1, 1) = "*"
  THEN \/ scope_match_any_char(name, SubSeq(glob, 2, Len(glob)))
       \/ name # "" /\ scope_match_any_char(SubSeq(name, 2, Len(name)), glob)
  ELSE /\ name # ""
       /\ SubSeq(name, 1, 1) = SubSeq(glob, 1, 1)
       /\ scope_match_any_char(SubSeq(name, 2, Len(name)), SubSeq(glob, 2, Len(glob)))

RECURSIVE scope_match(_, _)
\* one scope name against one glob component: `*` matches zero or more
\* characters
scope_match(name, glob) ==
  IF glob = "" THEN name = ""
  ELSE IF SubSeq(glob, 1, 1) = "*"
  THEN \/ scope_match(name, SubSeq(glob, 2, Len(glob)))
       \/ name # "" /\ scope_match(SubSeq(name, 2, Len(name)), glob)
  ELSE /\ name # ""
       /\ SubSeq(name, 1, 1) = SubSeq(glob, 1, 1)
       /\ scope_match(SubSeq(name, 2, Len(name)), SubSeq(glob, 2, Len(glob)))

RECURSIVE c_sname_match_from(_, _, _, _)
\* the scopes sname[1..i] against the components globs[1..j], from the
\* innermost outward; a leading "**" takes whatever scopes are left
c_sname_match_from(sname, i, globs, j) ==
  IF j = 0 THEN i = 0
  ELSE IF j = 1 /\ globs[1] = "**" THEN TRUE
  ELSE /\ i > 0
       /\ scope_match(sname[i], globs[j])
       /\ c_sname_match_from(sname, i - 1, globs, j - 1)

c_sname_match(sname, glob) ==
  LET globs == SplitGlob(glob, "")
  IN  c_sname_match_from(sname, Len(sname), globs, Len(globs))

ScopeNames == { "a", "b", "c", "x", "s", "foo", "sfoo" }

SNames == SeqUpTo(ScopeNames, MaxScopes) \ { <<>> }

\* valid globs: those of the doc comment and of the claim, and some more
Globs ==
  { "foo*", "s::*foo", "s*::foo", "s::*::foo", "**::foo", "a::*::c",
    "a::b::c", "*", "*::*", "**::*", "**::s::foo", "**::s*::*o", "foo", "c" }

InitMatch ==
  /\ Idle_rest
  /\ Idle_cli
  /\ fin = <<>>
  /\ ok = TRUE
  /\ \E n \in SNames, g \in Globs : io_op = [op |-> "sname", sname |-> n, glob |-> g]

SNameMatch ==
  /\ io_op.op = "sname"
  /\ io_op' = [op |-> "c_sname_match", sname |-> io_op.sname, glob |-> io_op.glob,
               ret |-> c_sname_match(io_op.sname, io_op.glob)]
  /\ UNCHANGED <<fin, fout, sbuf, is_cont_line, ok>>
  /\ UNCHANGED <<ast_vars, type_vars, cli_vars>>

NextMatch == SNameMatch

SpecMatch == InitMatch /\ [][NextMatch]_vars

\* the position of the `*` of a component that has one, else 0
StarAt(g) ==
  IF \E i \in 1..Len(g) : SubSeq(g, i, i) = "*"
  THEN CHOOSE i \in 1..Len(g) : SubSeq(g, i, i) = "*" ELSE 0

\* name is what stands before the `*` of g, zero or more characters, and
\* what stands after it, "::" never being one of the characters; without a
\* `*`, name is g
MatchesInScope(name, g) ==
  IF StarAt(g) = 0 THEN name = g
  ELSE LET pre == SubSeq(g, 1, StarAt(g) - 1)
           suf == SubSeq(g, StarAt(g) + 1, Len(g))
       IN  /\ Len(name) >= Len(pre) + Len(suf)
           /\ SubSeq(name, 1, Len(pre)) = pre
           /\ SubSeq(name, Len(name) - Len(suf) + 1, Len(name)) = suf

\* the scopes of sname after the first k match the components one to one
OneToOne(sname, k, globs) ==
  /\ Len(sname) - k = Len(globs)
  /\ \A i \in 1..Len(globs) : MatchesInScope(sname[k + i], globs[i])

Matched(n, g) ==
  io_op.op = "c_sname_match" /\ io_op.sname = n /\ io_op.glob = g

\* C16: the glob's components are compared with the name's scopes one to
\* one, a `*` matching zero or more characters of one scope name; a glob
\* with fewer components than the name matches only when it starts with
\* "**", which stands for any number of leading scopes, zero included.
\* a::b::c matches a::*::c, x::c does not, and s::foo and foo match **::foo.
C16_MatchesScopeByScope ==
  /\ io_op.op = "c_sname_match" =>
       LET globs == SplitGlob(io_op.glob, "")
           n == io_op.sname
       IN  /\ io_op.ret <=>
                IF globs[1] = "**"
                THEN \E k \in 0..Len(n) : OneToOne(n, k, Tail(globs))
                ELSE OneToOne(n, 0, globs)
           /\ (io_op.ret /\ Len(globs) < Len(n)) => SubSeq(io_op.glob, 1, 2) = "**"
  /\ Matched(<<"a", "b", "c">>, "a::*::c") => io_op.ret
  /\ Matched(<<"x", "c">>, "a::*::c") => ~io_op.ret
  /\ Matched(<<"s", "foo">>, "**::foo") => io_op.ret
  /\ Matched(<<"foo">>, "**::foo") => io_op.ret

\* foo was matched against **::foo, the "**" standing for no scope
C16_Witness ==
  /\ Matched(<<"foo">>, "**::foo")
  /\ io_op.ret
  /\ c_sname_match(<<"a", "b", "c">>, "a::*::c")
  /\ ~c_sname_match(<<"x", "c">>, "a::*::c")

----------------------------------------------------------------------------
(* ast.c: c_ast_english (SpecEnglish).  The trees rendered are chains: some *)
(* array, pointer and reference nodes, outermost first, around a built-in  *)
(* type.                                                                   *)

\* most array, pointer and reference nodes around the type
MaxWrappers == 2

\* ast.h: the size of an array declared without one
C_ARRAY_NO_SIZE == -1

RECURSIVE c_ast_english_no_size(_, _, _, _)
\* c_ast_english that leaves the size of an array out
c_ast_english_no_size(h, ast, lang, mode) ==
  LET n == h[ast]
  IN  CASE n.kind = K_ARRAY ->
             "array of " \o c_ast_english_no_size(h, n.of_ast, lang, mode)
        [] n.kind \in {K_POINTER, K_REFERENCE} ->
             (IF n.qualifier # T_NONE
              THEN c_type_name(n.qualifier, lang, mode) \o " " ELSE "")
             \o (IF n.kind = K_POINTER THEN "pointer" ELSE "reference") \o " to "
             \o c_ast_english_no_size(h, n.to_ast, lang, mode)
        [] OTHER -> c_type_name(n.type, lang, mode)

RECURSIVE c_ast_english_args(_, _, _, _, _)
RECURSIVE c_ast_english(_, _, _, _)
\* what c_ast_english( ast, fout ) writes to fout
c_ast_english(h, ast, lang, mode) ==
  LET n == h[ast]
  IN  CASE n.kind = K_NONE -> ""
        [] n.kind = K_ARRAY ->
             "array "
             \o (IF n.size # C_ARRAY_NO_SIZE THEN ToString(n.size) \o " " ELSE "")
             \o "of " \o c_ast_english(h, n.of_ast, lang, mode)
        [] n.kind \in {K_BLOCK, K_BUILTIN} -> c_type_name(n.type, lang, mode)
        [] n.kind = K_ENUM_CLASS_STRUCT_UNION ->
             c_type_name(n.type, lang, mode)
             \o (IF n.name # NULL THEN " " \o n.name ELSE "")
        [] n.kind = K_FUNCTION ->
             "function (" \o c_ast_english_args(h, n.args, 1, lang, mode)
             \o ") returning " \o c_ast_english(h, n.ret_ast, lang, mode)
        [] n.kind = K_PTR_TO_MEMBER ->
             (IF n.qualifier # T_NONE
              THEN c_type_name(n.qualifier, lang, mode) \o " " ELSE "")
             \o "pointer to member of class "
             \o n.class_name \o " "
             \o c_ast_english(h, n.of_ast, lang, mode)
        [] n.kind = K_NAME -> IF n.name # NULL THEN n.name ELSE ""
        [] n.kind \in {K_POINTER, K_REFERENCE} ->
             (IF n.qualifier # T_NONE
              THEN c_type_name(n.qualifier, lang, mode) \o " " ELSE "")
             \o (IF n.kind = K_POINTER THEN "pointer" ELSE "reference") \o " to "
             \o c_ast_english(h, n.to_ast, lang, mode)
        [] OTHER -> ""

\* the loop over as.func.args
c_ast_english_args(h, args, i, lang, mode) ==
  IF i > Len(args) THEN ""
  ELSE c_ast_english(h, args[i], lang, mode)
       \o c_ast_english_args(h, args, i + 1, lang, mode)

\* the nodes put around a type: what the grammar builds for a declarator
Wrappers ==
  [ kind : {K_ARRAY}, size : {C_ARRAY_NO_SIZE, 3}, qualifier : {T_NONE} ]
  \cup [ kind : {K_POINTER}, size : {0}, qualifier : {T_NONE, {"T_CONST"}, {"T_VOLATILE"}} ]
  \cup [ kind : {K_REFERENCE}, size : {0}, qualifier : {T_NONE} ]

BuiltinTypes == { {"T_CHAR"}, {"T_INT"}, {"T_UNSIGNED", "T_INT"} }

\* the heap that holds the chain w around the built-in type t: node i owns
\* node i + 1
ChainHeap(w, t) ==
  [ i \in 1..(Len(w) + 1) |->
      IF i = Len(w) + 1
      THEN [ c_ast_new(K_BUILTIN) EXCEPT !.type = t, !.parent = i - 1 ]
      ELSE [ c_ast_new(w[i].kind) EXCEPT
               !.size = w[i].size, !.qualifier = w[i].qualifier,
               !.parent = i - 1,
               !.of_ast = IF w[i].kind = K_ARRAY THEN i + 1 ELSE NullAst,
               !.to_ast = IF w[i].kind = K_ARRAY THEN NullAst ELSE i + 1 ] ]

InitEnglish ==
  /\ Idle_io
  /\ dest_type = T_NONE
  /\ type_op = [op |-> "none"]
  /\ opt_lang \in { "C_11", "CPP_17" }
  /\ c_mode \in { MODE_ENGLISH_TO_GIBBERISH, MODE_GIBBERISH_TO_ENGLISH }
  /\ \E w \in SeqUpTo(Wrappers, MaxWrappers), t \in BuiltinTypes :
       /\ heap = ChainHeap(w, t)
       /\ c_ast_count = Len(w) + 1
       /\ ast_op = [op |-> "built", wrappers |-> w, type |-> t]

AstEnglish ==
  /\ ast_op.op = "built"
  /\ ast_op' = [op |-> "english", wrappers |-> ast_op.wrappers, type |-> ast_op.type,
                ret |-> c_ast_english(heap, 1, opt_lang, c_mode)]
  /\ UNCHANGED <<heap, c_ast_count>>
  /\ UNCHANGED <<type_vars, io_vars, cli_vars>>

NextEnglish == AstEnglish

SpecEnglish == InitEnglish /\ [][NextEnglish]_vars

\* the phrase of one array, pointer or reference node, the qualifier const
\* being spelt as `const_word`
Phrase(w, const_word) ==
  IF w.kind = K_ARRAY
  THEN "array " \o (IF w.size = 3 THEN "3 " ELSE "") \o "of "
  ELSE (IF w.qualifier = {"T_CONST"} THEN const_word \o " "
        ELSE IF w.qualifier = {"T_VOLATILE"} THEN "volatile "
        ELSE "")
       \o (IF w.kind = K_POINTER THEN "pointer to " ELSE "reference to ")

RECURSIVE Phrases(_, _, _)
\* the phrases of w[i..], in order
Phrases(w, i, const_word) ==
  IF i > Len(w) THEN ""
  ELSE Phrase(w[i], const_word) \o Phrases(w, i + 1, const_word)

TypePhrase(t) ==
  IF t = {"T_CHAR"} THEN "char" ELSE IF t = {"T_INT"} THEN "int" ELSE "unsigned"

\* array 3 of (const pointer to (char))
IsExample ==
  /\ ast_op.wrappers = << [kind |-> K_ARRAY, size |-> 3, qualifier |-> T_NONE],
                          [kind |-> K_POINTER, size |-> 0, qualifier |-> {"T_CONST"}] >>
  /\ ast_op.type = {"T_CHAR"}

----------------------------------------------------------------------------
(* c_ast_util.h: c_ast_patch_placeholder, and ast_util.h: c_ast_patch_none *)
(* (SpecPatch).  The declarator is a chain of array, pointer and reference *)
(* nodes around a leaf; the type is a built-in node, alone or owned.       *)

\* deepest nesting of parentheses of a declarator
MaxDepth == 2

\* c_ast_find_kind: the nodes of kind `kind` in the tree of ast
FindKind(h, ast, kind) == { n \in Tree(h, ast) : h[n].kind = kind }

\* the patch without the comparison of the depths
c_ast_patch_any_depth(h, type_ast, decl_ast, kind) ==
  IF h[type_ast].parent = NullAst /\ FindKind(h, decl_ast, kind) # {}
  THEN LET placeholder == CHOOSE n \in FindKind(h, decl_ast, kind) : TRUE
           p == h[placeholder].parent
       IN  [ h EXCEPT ![type_ast].parent = p,
                      ![p].of_ast = IF @ = placeholder THEN type_ast ELSE @,
                      ![p].to_ast = IF @ = placeholder THEN type_ast ELSE @,
                      ![p].ret_ast = IF @ = placeholder THEN type_ast ELSE @ ]
  ELSE h

\* the heap after type_ast is patched into decl_ast in place of the node of
\* kind `kind`: the owner of that node becomes the owner of type_ast
c_ast_patch(h, type_ast, decl_ast, kind) ==
  IF /\ h[type_ast].parent = NullAst
     /\ h[type_ast].depth < h[decl_ast].depth
     /\ FindKind(h, decl_ast, kind) # {}
  THEN LET placeholder == CHOOSE n \in FindKind(h, decl_ast, kind) : TRUE
           p == h[placeholder].parent
       IN  [ h EXCEPT ![type_ast].parent = p,
                      ![p].of_ast = IF @ = placeholder THEN type_ast ELSE @,
                      ![p].to_ast = IF @ = placeholder THEN type_ast ELSE @,
                      ![p].ret_ast = IF @ = placeholder THEN type_ast ELSE @ ]
  ELSE h

\* the kinds of the leaf of a declarator
LeafKinds == { K_PLACEHOLDER, K_NONE, K_NAME }

\* the heap of a declarator chain w with a leaf of kind leaf and depth dd at
\* its root, then the type node of depth td, then (if owned) its owner
PatchHeap(w, leaf, dd, td, owned) ==
  LET decl == [ i \in 1..(Len(w) + 1) |->
                  IF i = Len(w) + 1
                  THEN [ c_ast_new(leaf) EXCEPT !.parent = i - 1 ]
                  ELSE [ ChainHeap(w, {"T_INT"})[i] EXCEPT
                           !.depth = IF i = 1 THEN dd ELSE 0 ] ]
      type_ast == Len(w) + 2
      type_node == [ c_ast_new(K_BUILTIN) EXCEPT
                       !.type = {"T_CHAR"}, !.depth = td,
                       !.parent = IF owned THEN type_ast + 1 ELSE NullAst ]
      owner == [ c_ast_new(K_POINTER) EXCEPT !.to_ast = type_ast ]
  IN  decl \o << type_node >> \o (IF owned THEN << owner >> ELSE << >>)

InitPatch ==
  /\ Idle_io
  /\ Idle_type
  /\ opt_lang = "C_11"
  /\ \E w \in SeqUpTo(Wrappers, MaxWrappers) \ { <<>> }, leaf \in LeafKinds,
        dd \in 0..MaxDepth, td \in 0..MaxDepth, owned \in BOOLEAN :
       /\ heap = PatchHeap(w, leaf, dd, td, owned)
       /\ c_ast_count = Len(PatchHeap(w, leaf, dd, td, owned))
       /\ ast_op = [op |-> "parsed", decl_ast |-> 1, type_ast |-> Len(w) + 2]

\* c_ast_patch_placeholder( type_ast, decl_ast ) or, with K_NONE marking the
\* place, c_ast_patch_none( type_ast, decl_ast )
Patch(kind) ==
  /\ ast_op.op = "parsed"
  /\ heap' = c_ast_patch(heap, ast_op.type_ast, ast_op.decl_ast, kind)
  /\ ast_op' = [op |-> "patch", decl_ast |-> ast_op.decl_ast,
                type_ast |-> ast_op.type_ast, kind |-> kind, before |-> heap]
  /\ UNCHANGED c_ast_count
  /\ UNCHANGED <<type_vars, io_vars, cli_vars>>

AstPatchPlaceholder == Patch(K_PLACEHOLDER)

AstPatchNone == Patch(K_NONE)

NextPatch == AstPatchPlaceholder \/ AstPatchNone

SpecPatch == InitPatch /\ [][NextPatch]_vars

\* the three conditions held when the patch was called
Patchable ==
  LET b == ast_op.before
  IN  /\ b[ast_op.type_ast].parent = NullAst
      /\ b[ast_op.type_ast].depth < b[ast_op.decl_ast].depth
      /\ \E n \in Tree(b, ast_op.decl_ast) : b[n].kind = ast_op.kind

\* C17: the patch puts the type in the place of the placeholder only if the
\* type has no parent, its depth is less than the declarator's and the
\* declarator still has a placeholder node; if any of the three fails, both
\* trees are left unchanged and distinct.
C17_PatchOnlyIfAllThree ==
  ast_op.op = "patch" =>
    LET b == ast_op.before
        t == ast_op.type_ast
        d == ast_op.decl_ast
    IN  IF Patchable
        THEN /\ t \in Tree(heap, d)
             /\ \A n \in Tree(b, d) : b[n].kind = ast_op.kind => n \notin Tree(heap, d)
             /\ heap[heap[t].parent].kind = b[heap[t].parent].kind
             /\ Tree(heap, d) \ {t} = { n \in Tree(b, d) : b[n].kind # ast_op.kind }
        ELSE /\ heap = b
             /\ t \notin Tree(heap, d)

\* a type of depth 0 without a parent was patched into a declarator of depth
\* 1 in the place of its placeholder
C17_Witness ==
  /\ ast_op.op = "patch"
  /\ ast_op.kind = K_PLACEHOLDER
  /\ Patchable
  /\ ast_op.type_ast \in Tree(heap, ast_op.decl_ast)
  /\ heap # ast_op.before


\* ---------------------------------------------------------------------------
\* print.c: the report of an unknown name and its suggestions.  What goes to
\* stderr is kept in fout, one element per EPUTS / EPUTC / EPRINTF.
\* ---------------------------------------------------------------------------

\* the longest list of suggestions tried
MaxSuggestions == 3

\* the widest error column tried
MaxColumn == 1

\* a few rows of the keyword table: one of each c_type_id_tpid() the switch of
\* fl_print_error_unknown_name has a case for; which is c_lang_which( lang_ids )
C_KEYWORDS ==
  { [literal |-> "break",    tpid |-> "C_TPID_NONE",  which |-> ""],
    [literal |-> "extern",   tpid |-> "C_TPID_STORE", which |-> ""],
    [literal |-> "char8_t",  tpid |-> "C_TPID_BASE",  which |-> " in C"],
    [literal |-> "noreturn", tpid |-> "C_TPID_ATTR",  which |-> " in C++"] }

\* c_keyword_find( name, LANG_ANY, C_KW_CTX_ALL ): the row of the keyword, or
\* a row without a literal when there is none (the NULL of the code)
NoKeyword == [literal |-> NULL, tpid |-> NULL, which |-> NULL]

c_keyword_find(name) ==
  IF \E k \in C_KEYWORDS : k.literal = name
    THEN CHOOSE k \in C_KEYWORDS : k.literal = name
    ELSE NoKeyword

\* the names reported: the keywords above and two names that are no keyword
UnknownNames == { k.literal : k \in C_KEYWORDS } \cup { "cosnt", "xyz" }

\* the tokens dym_new() may suggest
DymTokens == { "const", "constexpr", "float" }

\* what dym_new() returns: NULL, or an array of one or more suggestions
Dyms ==
  { [null |-> TRUE, tokens |-> <<>>] } \cup
  { [null |-> FALSE, tokens |-> t] : t \in SeqUpTo(DymTokens, MaxSuggestions) \ { <<>> } }

\* the locations an error is reported at: none, or a column of the line
Locs ==
  { [null |-> TRUE, first_column |-> 0] } \cup
  { [null |-> FALSE, first_column |-> c] : c \in 0..MaxColumn }

RECURSIVE Spaces(_)
Spaces(n) == IF n = 0 THEN "" ELSE " " \o Spaces(n - 1)

\* print_caret( error_column ) on a terminal: the caret under the column
print_caret(error_column) == << Spaces(error_column), "^", "\n" >>

\* print_loc( loc ) with no configuration file and nothing inserted
print_loc(loc) ==
  print_caret(loc.first_column) \o << ToString(loc.first_column + 1), ": " >>

\* fl_print_error( file, line, loc, format, ... ) where message is the
\* formatted text; print_debug_file_line() prints nothing unless debugging
fl_print_error(loc, message) ==
  (IF ~loc.null THEN print_loc(loc) \o << "error", ": " >> ELSE << >>)
    \o << message >>

\* what print_suggestions() puts before the i-th suggestion (from 1)
Separator(dym, i) ==
  IF i = 1 THEN ""
  ELSE IF i < Len(dym.tokens) THEN ", "
  ELSE IF i > 2 THEN ", or "
  ELSE " or "

RECURSIVE SuggestionsFrom(_, _)
SuggestionsFrom(dym, i) ==
  IF i > Len(dym.tokens) THEN << >>
  ELSE << Separator(dym, i) \o "\"" \o dym.tokens[i] \o "\"" >>
         \o SuggestionsFrom(dym, i + 1)

\* print_suggestions( kinds, unknown_token ) where dym is what dym_new()
\* returned: what is written and what is returned
print_suggestions(dym) ==
  IF ~dym.null
    THEN [out |-> << "; did you mean " >> \o SuggestionsFrom(dym, 1) \o << "?" >>,
          ret |-> TRUE]
    ELSE [out |-> << >>, ret |-> FALSE]

\* the kinds asked of dym_new() and the word of the message, by the switch
DymKindOf(k) ==
  CASE k.tpid \in { "C_TPID_NONE", "C_TPID_STORE" } -> "DYM_C_KEYWORDS"
    [] k.tpid = "C_TPID_BASE" -> "DYM_C_TYPES"
    [] k.tpid = "C_TPID_ATTR" -> "DYM_C_ATTRIBUTES"

WhatOf(k) ==
  CASE k.tpid \in { "C_TPID_NONE", "C_TPID_STORE" } -> "keyword"
    [] k.tpid = "C_TPID_BASE" -> "type"
    [] k.tpid = "C_TPID_ATTR" -> "attribute"

\* fl_print_error_unknown_name() that returns as soon as print_suggestions()
\* found nothing to suggest
fl_print_error_unknown_name_stops(loc, name, dym) ==
  LET k == c_keyword_find(name)
      message == IF k # NoKeyword
                   THEN "\"" \o name \o "\": unsupported " \o WhatOf(k) \o k.which
                   ELSE "\"" \o name \o "\": unknown name"
      sugg == print_suggestions(dym)
  IN  fl_print_error(loc, message) \o sugg.out
        \o (IF sugg.ret THEN << "\n" >> ELSE << >>)

\* fl_print_error_unknown_name( file, line, loc, sname ) where name is the
\* full name of sname and dym is what dym_new() returns for it
fl_print_error_unknown_name(loc, name, dym) ==
  LET k == c_keyword_find(name)
      message == IF k # NoKeyword
                   THEN "\"" \o name \o "\": unsupported " \o WhatOf(k) \o k.which
                   ELSE "\"" \o name \o "\": unknown name"
  IN  fl_print_error(loc, message) \o print_suggestions(dym).out \o << "\n" >>

\* a name, a location and an answer of dym_new(), nothing printed yet
InitPrint ==
  /\ Idle_rest
  /\ Idle_cli
  /\ fin = << >>
  /\ ok = TRUE
  /\ \E name \in UnknownNames, loc \in Locs, dym \in Dyms :
       io_op = [op |-> "none", name |-> name, loc |-> loc, dym |-> dym,
                kinds |-> "none", ret |-> FALSE]

\* fl_print_error_unknown_name( file, line, loc, sname )
PrintErrorUnknownName ==
  /\ io_op.op = "none"
  /\ fout' = fout \o fl_print_error_unknown_name(io_op.loc, io_op.name, io_op.dym)
  /\ io_op' = [io_op EXCEPT !.op = "fl_print_error_unknown_name",
                 !.kinds = IF c_keyword_find(io_op.name) # NoKeyword
                             THEN DymKindOf(c_keyword_find(io_op.name))
                             ELSE "DYM_C_KEYWORDS | DYM_C_TYPES",
                 !.ret = print_suggestions(io_op.dym).ret]
  /\ UNCHANGED <<cli_vars, type_vars, ast_vars, fin, sbuf, is_cont_line, ok>>

\* print_suggestions( kinds, unknown_token ) called on its own
PrintSuggestions ==
  /\ io_op.op = "none"
  /\ fout' = fout \o print_suggestions(io_op.dym).out
  /\ io_op' = [io_op EXCEPT !.op = "print_suggestions",
                 !.ret = print_suggestions(io_op.dym).ret]
  /\ UNCHANGED <<cli_vars, type_vars, ast_vars, fin, sbuf, is_cont_line, ok>>

NextPrint == PrintErrorUnknownName \/ PrintSuggestions

SpecPrint == InitPrint /\ [][NextPrint]_vars

RECURSIVE TextFrom(_, _)
TextFrom(pieces, i) ==
  IF i > Len(pieces) THEN "" ELSE pieces[i] \o TextFrom(pieces, i + 1)

\* everything written to stderr, as one text
ErrText == TextFrom(fout, 1)

\* the name reported is a keyword of some dialect
IsKeywordName == io_op.name \in { k.literal : k \in C_KEYWORDS }

\* the report says "unsupported keyword", "unsupported type" or
\* "unsupported attribute" of the name
SaysUnsupported ==
  \E what \in { "keyword", "type", "attribute" } :
    Contains(ErrText, "\"" \o io_op.name \o "\": unsupported " \o what)

SaysUnknown == Contains(ErrText, "\"" \o io_op.name \o "\": unknown name")

EndsWithNewline ==
  /\ Len(ErrText) > 0
  /\ SubSeq(ErrText, Len(ErrText), Len(ErrText)) = "\n"

SaysDidYouMean == Contains(ErrText, "; did you mean \"")

\* C19: fl_print_error_unknown_name always completes its report: it prints
\* "unsupported keyword / type / attribute" for a name that is a keyword of
\* some dialect and "unknown name" for any other, and ends the report with a
\* newline, whether or not a suggestion was found; print_suggestions returns
\* true exactly when it printed a "did you mean" list.
C19_ReportCompletes ==
  /\ io_op.op = "fl_print_error_unknown_name" =>
       /\ IsKeywordName => SaysUnsupported /\ ~SaysUnknown
       /\ ~IsKeywordName => SaysUnknown /\ ~SaysUnsupported
       /\ EndsWithNewline
       /\ SaysDidYouMean <=> ~io_op.dym.null
  /\ io_op.op = "print_suggestions" =>
       /\ io_op.ret <=> SaysDidYouMean
       /\ io_op.ret <=> ~io_op.dym.null

\* the report of a keyword for which nothing could be suggested is complete
C19_Witness ==
  /\ io_op.op = "fl_print_error_unknown_name"
  /\ IsKeywordName
  /\ io_op.dym.null
  /\ ~SaysDidYouMean
  /\ SaysUnsupported
  /\ EndsWithNewline


\* ---------------------------------------------------------------------------
\* cdecl.c: the clean-up at exit.  cdecl_cleanup() is registered with
\* atexit(); io_op.ran lists the clean-up functions it has called so far and
\* io_op.err tells whether c_ast_cleanup() raised the internal error.
\* ---------------------------------------------------------------------------

\* the kinds of node built before the exit: a leaf, a node with one child
\* and a function, whose return type c_ast_free() does not visit
ExitKinds == { K_BUILTIN, K_POINTER, K_FUNCTION }

\* c_ast_cleanup() raising the error only for two nodes or more
c_ast_cleanup_two_or_more(count) == count > 1

\* c_ast_cleanup(): whether INTERNAL_ERR is raised
c_ast_cleanup(count) == count > 0

\* the nodes that c_ast_free() called on each root in roots visits
RECURSIVE c_ast_free_all(_, _)
c_ast_free_all(h, roots) ==
  IF roots = {} THEN {}
  ELSE LET r == CHOOSE r \in roots : TRUE
       IN  c_ast_free(h, r) \cup c_ast_free_all(h, roots \ {r})

\* the nodes c_ast_free() may be called on: live and without an owner
FreeableRoots == { n \in 1..Len(heap) : Live(n) /\ heap[n].parent = NullAst }

InitExit ==
  /\ Idle_rest
  /\ Idle_cli
  /\ fin = << >>
  /\ ok = TRUE
  /\ io_op = [op |-> "none", ran |-> << >>, err |-> FALSE]

\* the program runs: nodes are made, joined and freed
ExitRun ==
  /\ io_op.ran = << >>
  /\ \/ AstNew /\ ast_op'.kind \in ExitKinds
     \/ AttachTo
     \/ AttachRet
     \/ AttachArg
     \/ AstFree

\* exit() calls cdecl_cleanup(), which starts with free_now(): no node is
\* touched
ExitFreeNow ==
  /\ io_op.ran = << >>
  /\ io_op' = [io_op EXCEPT !.op = "cdecl_cleanup", !.ran = << "free_now" >>]
  /\ UNCHANGED <<cli_vars, type_vars, ast_vars, fin, fout, sbuf, is_cont_line, ok>>

\* a clean-up function that frees some of the trees still alive
CleanupFreeing(after, name) ==
  /\ io_op.ran # << >>
  /\ io_op.ran[Len(io_op.ran)] = after
  /\ \E roots \in SUBSET FreeableRoots :
       LET F == c_ast_free_all(heap, roots)
       IN  /\ heap' = [n \in 1..Len(heap) |->
                         IF n \in F THEN [heap[n] EXCEPT !.freed = TRUE]
                         ELSE heap[n]]
           /\ c_ast_count' = c_ast_count - Cardinality(F)
  /\ io_op' = [io_op EXCEPT !.ran = Append(@, name)]
  /\ UNCHANGED <<cli_vars, type_vars, ast_op, fin, fout, sbuf, is_cont_line, ok>>

\* c_typedef_cleanup()
ExitTypedefCleanup == CleanupFreeing("free_now", "c_typedef_cleanup")

\* parser_cleanup()
ExitParserCleanup == CleanupFreeing("c_typedef_cleanup", "parser_cleanup")

\* c_ast_cleanup()
ExitAstCleanup ==
  /\ io_op.ran # << >>
  /\ io_op.ran[Len(io_op.ran)] = "parser_cleanup"
  /\ io_op' = [io_op EXCEPT !.ran = Append(@, "c_ast_cleanup"),
                 !.err = c_ast_cleanup(c_ast_count)]
  /\ UNCHANGED <<cli_vars, type_vars, ast_vars, fin, fout, sbuf, is_cont_line, ok>>

NextExit ==
  ExitRun \/ ExitFreeNow \/ ExitTypedefCleanup \/ ExitParserCleanup
    \/ ExitAstCleanup

SpecExit == InitExit /\ [][NextExit]_vars

\* the nodes made by c_ast_new() that c_ast_free() was never called on
NotYetFreed == { n \in 1..Len(heap) : ~heap[n].freed }

AstCleanupRan ==
  /\ io_op.ran # << >>
  /\ io_op.ran[Len(io_op.ran)] = "c_ast_cleanup"

\* C21: at exit cdecl_cleanup runs c_ast_cleanup last, after
\* parser_cleanup, and c_ast_cleanup raises the internal error exactly when
\* the number of nodes made by c_ast_new and not yet freed by c_ast_free is
\* greater than zero; before c_ast_cleanup has run no error is raised.
C21_LeakDetectedAtExit ==
  /\ AstCleanupRan =>
       /\ Len(io_op.ran) = 4
       /\ io_op.ran[3] = "parser_cleanup"
       /\ io_op.err <=> Cardinality(NotYetFreed) > 0
  /\ ~AstCleanupRan => ~io_op.err
  /\ \A i \in 1..Len(io_op.ran) :
       io_op.ran[i] = "c_ast_cleanup" => i = Len(io_op.ran)

\* the error was raised at exit for one node that was left
C21_Witness ==
  /\ AstCleanupRan
  /\ io_op.err
  /\ Cardinality(NotYetFreed) = 1
  /\ Len(heap) > 1


\* ---------------------------------------------------------------------------
\* c_type_add: a further "long" (SpecAdd).
\* ---------------------------------------------------------------------------

\* the call just made put the long-long bit into a type that had not got it,
\* though the type added had not got it either
RewroteToLongLong ==
  /\ Added
  /\ type_op.ret
  /\ "T_LONG_LONG" \in dest_type
  /\ "T_LONG_LONG" \notin (type_op.old \cup type_op.new)

\* C22: the long-to-long-long rewrite of c_type_add applies only to a
\* destination that has long but neither long long, float nor double: adding
\* "long" to a type that is already long long, or to long double or long
\* float, fails and leaves the destination unchanged.
C22_NoThirdLong ==
  /\ RewroteToLongLong =>
       /\ "T_LONG" \in type_op.old
       /\ type_op.old \cap {"T_LONG_LONG", "T_FLOAT", "T_DOUBLE"} = {}
  /\ ( /\ Added
       /\ type_op.new = {"T_LONG"}
       /\ "T_LONG" \in type_op.old
       /\ type_op.old \cap {"T_LONG_LONG", "T_FLOAT", "T_DOUBLE"} # {} )
     => ~type_op.ret /\ dest_type = type_op.old

\* a third long was refused
C22_Witness ==
  /\ Added
  /\ type_op.old = {"T_LONG", "T_LONG_LONG"}
  /\ type_op.new = {"T_LONG"}
  /\ ~type_op.ret
  /\ dest_type = type_op.old


\* ---------------------------------------------------------------------------
\* cdecl.c: parse_string.  io_op.op tells where the program is: "idle"
\* outside parse_string, "yyparse" inside it before the parser has run,
\* "parsed" inside it after the parser has run, "exit" when IF_EXIT ended
\* the program.  sbuf is explain_buf.str (NULL while no buffer exists).
\* ---------------------------------------------------------------------------

\* static char const EXPLAIN_SP[] = "explain "
EXPLAIN_SP == "explain "

\* the strings handed to parse_string: const and static with everything
\* that may follow them, and a few lines that begin otherwise
ParseLines ==
  { sp \o w \o x : sp \in { "", " " }, w \in { "const", "static" }, x \in Suffixes }
    \cup { "", "int x", "explain int x", "cast x into int", "set explain",
           "set noexplain" }

\* parse_string resetting inserted_len only after a successful parse
parse_string_reset_if_ok(len, parse_ok) ==
  IF len > 0 /\ parse_ok THEN [inserted_len |-> 0, freed |-> TRUE]
  ELSE [inserted_len |-> len, freed |-> FALSE]

\* the end of parse_string: if ( inserted_len > 0 ) { strbuf_free(
\* &explain_buf ); inserted_len = 0; }
parse_string_reset(len, parse_ok) ==
  IF len > 0 THEN [inserted_len |-> 0, freed |-> TRUE]
  ELSE [inserted_len |-> len, freed |-> FALSE]

InitParse ==
  /\ Idle_rest
  /\ fin = << >>
  /\ ok = TRUE
  /\ opt_explain \in BOOLEAN
  /\ inserted_len = 0
  /\ Idle_rl
  /\ io_op = [op |-> "idle", s |-> "", parsed |-> "", explain |-> FALSE,
              allocated |-> FALSE, freed |-> FALSE, calls |-> 0]

\* parse_string( s, s_len ) up to the call of fmemopen()
ParseStringEnter ==
  /\ io_op.op = "idle"
  /\ \E s \in ParseLines :
       IF opt_explain /\ ~is_command(s)
       THEN /\ inserted_len' = Len(EXPLAIN_SP)
            /\ sbuf' = strbuf_catsn(strbuf_catsn("", EXPLAIN_SP, Len(EXPLAIN_SP)),
                                    s, Len(s))
            /\ io_op' = [op |-> "yyparse", s |-> s, parsed |-> sbuf',
                         explain |-> opt_explain, allocated |-> TRUE,
                         freed |-> FALSE, calls |-> 1]
       ELSE /\ UNCHANGED <<inserted_len, sbuf>>
            /\ io_op' = [op |-> "yyparse", s |-> s, parsed |-> s,
                         explain |-> opt_explain, allocated |-> FALSE,
                         freed |-> FALSE, calls |-> 1]
  /\ UNCHANGED <<type_vars, ast_vars, fin, fout, is_cont_line, ok, opt_explain, rl_vars>>

\* IF_EXIT( ftmp == NULL, EX_IOERR ): fmemopen() failed and the program ends
ParseStringExit ==
  /\ io_op.op = "yyparse"
  /\ io_op' = [io_op EXCEPT !.op = "exit"]
  /\ UNCHANGED <<type_vars, ast_vars, fin, fout, sbuf, is_cont_line, ok, cli_vars>>

\* yyrestart( ftmp ); ok = yyparse() == 0: the parse succeeds or fails, and a
\* set command may turn explain-by-default on or off
ParseStringParse ==
  /\ io_op.op = "yyparse"
  /\ ok' \in BOOLEAN
  /\ IF strn(io_op.parsed, 4) = "set "
       THEN opt_explain' = (io_op.parsed = "set explain")
       ELSE UNCHANGED opt_explain
  /\ io_op' = [io_op EXCEPT !.op = "parsed"]
  /\ UNCHANGED <<type_vars, ast_vars, fin, fout, sbuf, is_cont_line, inserted_len, rl_vars>>

\* fclose( ftmp ) and the rest of parse_string
ParseStringReturn ==
  /\ io_op.op = "parsed"
  /\ LET r == parse_string_reset(inserted_len, ok)
     IN  /\ inserted_len' = r.inserted_len
         /\ sbuf' = IF r.freed THEN NULL ELSE sbuf
         /\ io_op' = [io_op EXCEPT !.op = "idle", !.freed = r.freed]
  /\ UNCHANGED <<type_vars, ast_vars, fin, fout, is_cont_line, ok, opt_explain, rl_vars>>

NextParse ==
  ParseStringEnter \/ ParseStringExit \/ ParseStringParse \/ ParseStringReturn

SpecParse == InitParse /\ [][NextParse]_vars

\* parse_string is on the call stack
InParseString == io_op.op \in { "yyparse", "parsed", "exit" }

\* the string of the call in progress does not start with a command
NoCommand == ~is_command(io_op.s)

\* C23: inserted_len is 0 whenever parse_string is not executing;
\* parse_string sets it to the length of "explain " (8) only when
\* explain-by-default is on and the string does not start with a command,
\* parses the string with "explain " put before it in exactly that case, and
\* resets inserted_len to 0, freeing the buffer exactly when it was
\* allocated, before it returns, whether the parse succeeded or failed.
C23_InsertedLenZeroOutside ==
  /\ ~InParseString =>
       /\ inserted_len = 0
       /\ sbuf = NULL
       /\ io_op.freed <=> io_op.allocated
  /\ InParseString =>
       /\ inserted_len \in { 0, 8 }
       /\ inserted_len = 8 <=> (io_op.explain /\ NoCommand)
       /\ inserted_len = 8 => io_op.parsed = "explain " \o io_op.s
       /\ inserted_len = 0 => io_op.parsed = io_op.s
       /\ io_op.allocated <=> inserted_len = 8
       /\ io_op.allocated <=> sbuf # NULL

\* parse_string has returned from a failed parse of a string it had put
\* "explain " before
C23_Witness ==
  /\ io_op.op = "idle"
  /\ io_op.calls = 1
  /\ io_op.allocated
  /\ io_op.freed
  /\ ~ok
  /\ inserted_len = 0

\* the line of the call in progress starts with the word w
StartsWith(w) == strn(SKIP_WS(io_op.s), Len(w)) = w

\* what follows the word w on that line is whitespace, then "cast", then
\* whitespace
ThenCast(w) ==
  LET p == Skip(SKIP_WS(io_op.s), Len(w))
      q == SKIP_WS(p)
  IN  /\ isspace(CharAt(p, 0))
      /\ strn(q, 4) = "cast"
      /\ Len(q) > 4
      /\ isspace(CharAt(q, 4))

\* C24: in explain-by-default mode a line starting with "const" or "static"
\* is taken for a command, with no "explain " inserted, only when the word
\* is followed by whitespace, "cast" and whitespace; in every other case
\* is_command is false for it and parse_string inserts "explain ".
C24_ConstStaticOnlyBeforeCast ==
  \A w \in { "const", "static" } :
    (InParseString /\ io_op.explain /\ StartsWith(w)) =>
      /\ is_command(io_op.s) <=> ThenCast(w)
      /\ ThenCast(w) => inserted_len = 0 /\ io_op.parsed = io_op.s
      /\ ~ThenCast(w) =>
           /\ inserted_len = 8
           /\ io_op.parsed = "explain " \o io_op.s

\* "const x" is being parsed as "explain const x"
C24_Witness ==
  /\ io_op.op = "parsed"
  /\ io_op.explain
  /\ io_op.s = "const x"
  /\ io_op.parsed = "explain const x"
  /\ inserted_len = 8


\* ---------------------------------------------------------------------------
\* autocomplete.c: command_generator.  readline calls it with state 0 for a
\* new word and with a non-zero state for each further match; index and
\* text_len are its statics.
\* ---------------------------------------------------------------------------

\* the calls made after the generator has returned NULL that are followed
MaxNullCalls == 2

\* the lang_ids of CDECL_COMMANDS, in the order of the table: LANG_ANY,
\* LANG_CPP_ANY, LANG_MIN(C_89) and LANG_CPP_MIN(11)
COMMAND_LANGS ==
  << LANG_ALL, LANG_CPP_ALL, LANG_CPP_ALL, LANG_ALL, LANG_ALL, LANG_CPP_ALL,
     LANG_MIN("C_89"), LANG_ALL, LANG_ALL, LANG_ALL, LANG_CPP_ALL, LANG_ALL,
     LANG_CPP_ALL, LANG_ALL, LANG_ALL, LANG_CPP_ALL, LANG_ALL, LANG_ALL,
     LANG_ALL, LANG_MIN("CPP_11") >>

RECURSIVE command_generator_any_lang(_, _, _, _)
\* command_generator without its test of the language of a command
command_generator_any_lang(text, len, lang, i) ==
  IF i + 1 > Len(CDECL_COMMANDS) THEN [index |-> i, ret |-> NULL]
  ELSE IF strncmp_equal(text, CDECL_COMMANDS[i + 1], len)
       THEN [index |-> i + 1, ret |-> CDECL_COMMANDS[i + 1]]
       ELSE command_generator_any_lang(text, len, lang, i + 1)

RECURSIVE command_generator(_, _, _, _)
\* the for loop of command_generator from index i (counted from 0 as in the
\* code): the index it leaves and what it returns
command_generator(text, len, lang, i) ==
  IF i + 1 > Len(CDECL_COMMANDS) THEN [index |-> i, ret |-> NULL]
  ELSE IF ({lang} \cap COMMAND_LANGS[i + 1]) = LANG_NONE
       THEN command_generator(text, len, lang, i + 1)
       ELSE IF strncmp_equal(text, CDECL_COMMANDS[i + 1], len)
       THEN [index |-> i + 1, ret |-> CDECL_COMMANDS[i + 1]]
       ELSE command_generator(text, len, lang, i + 1)

\* the words completed: prefixes of commands, a whole command, a command
\* with something after it, and a word that begins no command
CompletionTexts ==
  { "", "c", "cl", "cast", "castx", "d", "e", "ex", "s", "st", "u", "us",
    "using", "x" }

\* the dialects completion is tried in
CompletionLangs == { "C_KNR", "C_89", "C_11", "CPP_98", "CPP_11", "CPP_17" }

InitComplete ==
  /\ Idle_type
  /\ Idle_ast
  /\ Idle_cli
  /\ fin = << >>
  /\ fout = << >>
  /\ sbuf = NULL
  /\ is_cont_line = FALSE
  /\ ok = TRUE
  /\ opt_lang \in CompletionLangs
  /\ \E text \in CompletionTexts :
       io_op = [op |-> "none", text |-> text, returned |-> << >>, nulls |-> 0]

\* command_generator( text, 0 )
CommandGeneratorFirst ==
  /\ LET r == command_generator(io_op.text, Len(io_op.text), opt_lang, 0)
     IN  /\ index' = r.index
         /\ text_len' = Len(io_op.text)
         /\ io_op' = [op |-> "command_generator", text |-> io_op.text,
                      returned |-> IF r.ret = NULL THEN << >> ELSE << r.ret >>,
                      nulls |-> IF r.ret = NULL THEN 1 ELSE 0]
  /\ UNCHANGED <<type_vars, ast_vars, fin, fout, sbuf, is_cont_line, ok>>
  /\ UNCHANGED <<opt_explain, inserted_len, command, more_matches,
                 rl_line_buffer, cdecl_prompt, prompt_buf>>

\* command_generator( text, state ) with state # 0
CommandGeneratorNext ==
  /\ io_op.op = "command_generator"
  /\ io_op.nulls <= MaxNullCalls
  /\ LET r == command_generator(io_op.text, text_len, opt_lang, index)
     IN  /\ index' = r.index
         /\ io_op' = [io_op EXCEPT
                        !.returned = IF r.ret = NULL THEN @ ELSE Append(@, r.ret),
                        !.nulls = IF r.ret = NULL THEN @ + 1 ELSE @]
  /\ UNCHANGED <<type_vars, ast_vars, fin, fout, sbuf, is_cont_line, ok>>
  /\ UNCHANGED <<opt_explain, inserted_len, text_len, command, more_matches,
                 rl_line_buffer, cdecl_prompt, prompt_buf>>

NextComplete == CommandGeneratorFirst \/ CommandGeneratorNext

SpecComplete == InitComplete /\ [][NextComplete]_vars

\* the text is the beginning of the word w
IsPrefixOf(text, w) == Len(text) <= Len(w) /\ SubSeq(w, 1, Len(text)) = text

\* the positions in CDECL_COMMANDS of the commands of the current dialect
\* that start with the text
MatchingCommands ==
  { i \in 1..Len(CDECL_COMMANDS) :
      /\ IsPrefixOf(io_op.text, CDECL_COMMANDS[i])
      /\ opt_lang \in COMMAND_LANGS[i] }

\* the k-th smallest member of the set S of numbers
RECURSIVE KthOf(_, _)
KthOf(S, k) ==
  LET m == CHOOSE x \in S : \A y \in S : x <= y
  IN  IF k = 1 THEN m ELSE KthOf(S \ {m}, k - 1)

\* C25: in a round of command_generator for a fixed text and dialect (a
\* call with state 0, then calls with a non-zero state) the commands
\* returned are, in table order and each once, exactly the commands that
\* start with the text and whose language mask includes the dialect; then
\* NULL is returned, and again by every further call; a call with state 0
\* starts again from the beginning of the table.
C25_RoundReturnsMatchesInOrder ==
  io_op.op = "command_generator" =>
    /\ Len(io_op.returned) <= Cardinality(MatchingCommands)
    /\ \A k \in 1..Len(io_op.returned) :
         io_op.returned[k] = CDECL_COMMANDS[KthOf(MatchingCommands, k)]
    /\ io_op.nulls > 0 => Len(io_op.returned) = Cardinality(MatchingCommands)
    /\ io_op.nulls = 0 => Len(io_op.returned) >= 1

\* in C++11 the round for "c" gave cast, class and const and then NULL twice
C25_Witness ==
  /\ io_op.op = "command_generator"
  /\ opt_lang = "CPP_11"
  /\ io_op.text = "c"
  /\ io_op.returned = << "cast", "class", "const" >>
  /\ io_op.nulls = 2


\* ---------------------------------------------------------------------------
\* autocomplete.c: keyword_completion.  command, index, more_matches and
\* text_len are its statics; rl_line_buffer is the line being edited and
\* rl_end its length.
\* ---------------------------------------------------------------------------

\* some rows of CDECL_KEYWORDS, in the order of the table: the literals and
\* their lang_ids
CDECL_KEYWORDS ==
  << [literal |-> "array",   lang_ids |-> LANG_ALL],
     [literal |-> "class",   lang_ids |-> LANG_CPP_ALL],
     [literal |-> "inline",  lang_ids |-> LANG_MIN("C_99")],
     [literal |-> "int",     lang_ids |-> LANG_ALL],
     [literal |-> "pointer", lang_ids |-> LANG_ALL],
     [literal |-> "static",  lang_ids |-> LANG_ALL] >>

\* what init_set_options() builds: some options, their "no" forms and some
\* dialects
SET_OPTIONS == << "explain", "noexplain", "prompt", "noprompt", "c11", "c++11" >>

\* options.h: opt_lang_is_cpp()
opt_lang_is_cpp(lang) == lang \in LANG_CPP_ALL

\* autocomplete.c: is_command( command ) on the line being edited
rl_is_command(line, cmd) ==
  IF Len(cmd) > Len(line) THEN FALSE ELSE strncmp_equal(line, cmd, Len(cmd))

RECURSIVE first_command_from(_, _, _)
\* the loop over CDECL_COMMANDS of keyword_completion, from entry i
first_command_from(line, lang, i) ==
  IF i > Len(CDECL_COMMANDS) THEN NULL
  ELSE IF ({lang} \cap COMMAND_LANGS[i]) # LANG_NONE
            /\ rl_is_command(line, CDECL_COMMANDS[i])
       THEN CDECL_COMMANDS[i]
       ELSE first_command_from(line, lang, i + 1)

\* the command keyword_completion settles on when state == 0
current_command(line, lang) ==
  IF rl_is_command(line, "cast")
       \/ ( opt_lang_is_cpp(lang) /\
            ( rl_is_command(line, "const") \/ rl_is_command(line, "dynamic")
              \/ rl_is_command(line, "static")
              \/ rl_is_command(line, "reinterpret") ) )
    THEN "cast"
    ELSE first_command_from(line, lang, 1)

RECURSIVE set_option_from(_, _, _)
\* the loop over set_options from index i (counted from 0)
set_option_from(text, len, i) ==
  IF i + 1 > Len(SET_OPTIONS) THEN [index |-> i, ret |-> NULL]
  ELSE IF strncmp_equal(text, SET_OPTIONS[i + 1], len)
       THEN [index |-> i + 1, ret |-> SET_OPTIONS[i + 1]]
       ELSE set_option_from(text, len, i + 1)

RECURSIVE keyword_from(_, _, _, _)
\* the loop over CDECL_KEYWORDS from index i (counted from 0)
keyword_from(text, len, lang, i) ==
  IF i + 1 > Len(CDECL_KEYWORDS) THEN [index |-> i, ret |-> NULL]
  ELSE IF ({lang} \cap CDECL_KEYWORDS[i + 1].lang_ids) = LANG_NONE
       THEN keyword_from(text, len, lang, i + 1)
       ELSE IF strncmp_equal(text, CDECL_KEYWORDS[i + 1].literal, len)
       THEN [index |-> i + 1, ret |-> CDECL_KEYWORDS[i + 1].literal]
       ELSE keyword_from(text, len, lang, i + 1)

\* keyword_completion that goes on offering "into"
keyword_completion_into_again(text, len, lang, line, cmd, more, i) ==
  IF cmd = NULL \/ ~more
    THEN [ret |-> NULL, index |-> i, more_matches |-> more]
  ELSE IF cmd = "cast" /\ strncmp_equal(text, "into", len)
            /\ ~Contains(line, "into")
    THEN [ret |-> "into", index |-> i, more_matches |-> more]
  ELSE IF cmd = "set"
    THEN [ret |-> set_option_from(text, len, i).ret,
          index |-> set_option_from(text, len, i).index, more_matches |-> more]
  ELSE [ret |-> keyword_from(text, len, lang, i).ret,
        index |-> keyword_from(text, len, lang, i).index, more_matches |-> more]

\* keyword_completion after its statics are set: what it returns and the
\* statics it leaves
keyword_completion(text, len, lang, line, cmd, more, i) ==
  IF cmd = NULL \/ ~more
    THEN [ret |-> NULL, index |-> i, more_matches |-> more]
  ELSE IF cmd = "cast" /\ strncmp_equal(text, "into", len)
            /\ ~Contains(line, "into")
    THEN [ret |-> "into", index |-> i, more_matches |-> FALSE]
  ELSE IF cmd = "set"
    THEN [ret |-> set_option_from(text, len, i).ret,
          index |-> set_option_from(text, len, i).index, more_matches |-> more]
  ELSE [ret |-> keyword_from(text, len, lang, i).ret,
        index |-> keyword_from(text, len, lang, i).index, more_matches |-> more]

\* the lines being edited
EditedLines ==
  { "", "cast x ", "cast x in", "cast x into ", "castle ", "const cast x i",
    "constant", "static x ", "dynamic cast p ", "reinterpret", " cast x ",
    "declare x as ", "set ", "foo ", "class C ", "using " }

\* the words being completed
KeywordTexts == { "", "i", "in", "int", "into", "intox", "p", "no", "x" }

\* the dialects tried
KeywordLangs == { "C_89", "C_11", "CPP_98", "CPP_11" }

InitKeyword ==
  /\ Idle_type
  /\ Idle_ast
  /\ fin = << >>
  /\ fout = << >>
  /\ sbuf = NULL
  /\ is_cont_line = FALSE
  /\ ok = TRUE
  /\ opt_explain = FALSE
  /\ inserted_len = 0
  /\ index = 0
  /\ text_len = 0
  /\ command = NULL
  /\ more_matches = FALSE
  /\ cdecl_prompt = << NULL, NULL >>
  /\ prompt_buf = << NULL, NULL >>
  /\ opt_lang \in KeywordLangs
  /\ rl_line_buffer \in EditedLines
  /\ \E text \in KeywordTexts :
       io_op = [op |-> "none", text |-> text, returned |-> << >>, calls |-> 0]

\* keyword_completion( text, 0 )
KeywordCompletionFirst ==
  /\ LET cmd == current_command(rl_line_buffer, opt_lang)
         r == keyword_completion(io_op.text, Len(io_op.text), opt_lang,
                                 rl_line_buffer, cmd, TRUE, 0)
     IN  /\ command' = cmd
         /\ text_len' = Len(io_op.text)
         /\ index' = r.index
         /\ more_matches' = r.more_matches
         /\ io_op' = [op |-> "keyword_completion", text |-> io_op.text,
                      returned |-> IF r.ret = NULL THEN << >> ELSE << r.ret >>,
                      calls |-> 1]
  /\ UNCHANGED <<type_vars, ast_vars, fin, fout, sbuf, is_cont_line, ok>>
  /\ UNCHANGED <<opt_explain, inserted_len, rl_line_buffer, cdecl_prompt,
                 prompt_buf>>

\* keyword_completion( text, state ) with state # 0
KeywordCompletionNext ==
  /\ io_op.op = "keyword_completion"
  /\ io_op.calls <= MaxNullCalls + Len(io_op.returned)
  /\ LET r == keyword_completion(io_op.text, text_len, opt_lang,
                                 rl_line_buffer, command, more_matches, index)
     IN  /\ index' = r.index
         /\ more_matches' = r.more_matches
         /\ io_op' = [io_op EXCEPT
                        !.returned = IF r.ret = NULL THEN @ ELSE Append(@, r.ret),
                        !.calls = @ + 1]
  /\ UNCHANGED <<type_vars, ast_vars, fin, fout, sbuf, is_cont_line, ok>>
  /\ UNCHANGED <<opt_explain, inserted_len, text_len, command, rl_line_buffer,
                 cdecl_prompt, prompt_buf>>

NextKeyword == KeywordCompletionFirst \/ KeywordCompletionNext

SpecKeyword == InitKeyword /\ [][NextKeyword]_vars

\* the line being edited is a cast command
CastLine ==
  \/ IsPrefixOf("cast", rl_line_buffer)
  \/ /\ opt_lang \in { "CPP_98", "CPP_03", "CPP_11", "CPP_14", "CPP_17" }
     /\ \E w \in { "const", "dynamic", "static", "reinterpret" } :
          IsPrefixOf(w, rl_line_buffer)

\* the line being edited starts with a command of the current dialect
CommandLine ==
  \E i \in 1..Len(CDECL_COMMANDS) :
    /\ opt_lang \in COMMAND_LANGS[i]
    /\ IsPrefixOf(CDECL_COMMANDS[i], rl_line_buffer)

MORE_LEN == 3

\* a > b for two size_t
size_gt(a, b) == IF (a < 0) = (b < 0) THEN a > b ELSE a < 0

\* <ctype.h>
isalnum(c) == \E i \in 1..Len(Alnum) : SubSeq(Alnum, i, i) = c

RECURSIVE token_len_from(_, _, _, _)
\* the while loop of token_len: i is s - s0 before ++s
token_len_from(s, is_s0_alnum, is_s0_space, i) ==
  LET c == CharAt(s, i + 1)
  IN  IF c = NUL THEN i + 1
      ELSE IF is_s0_alnum
        THEN IF ~isalnum(c) THEN i + 1
             ELSE token_len_from(s, is_s0_alnum, is_s0_space, i + 1)
      ELSE IF is_s0_space
        THEN IF ~isspace(c) THEN i + 1
             ELSE token_len_from(s, is_s0_alnum, is_s0_space, i + 1)
      ELSE IF isalnum(c) \/ isspace(c) THEN i + 1
           ELSE token_len_from(s, is_s0_alnum, is_s0_space, i + 1)

\* token_len( s ) for a string that is not empty
token_len(s) == token_len_from(s, isalnum(CharAt(s, 0)), isspace(CharAt(s, 0)), 0)

RECURSIVE chop_whitespace(_, _)
\* while ( ends_with_any_chr( input_line, input_line_len, " \f\r\t\n\v" ) )
\*   --input_line_len
chop_whitespace(s, len) ==
  IF len > 0 /\ isspace(CharAt(s, len - 1)) THEN chop_whitespace(s, len - 1)
  ELSE len

\* the first n characters of s from offset off: what "%.*s" prints of
\* s + off with precision n (a negative precision counts as none given)
precision_s(s, off, n) ==
  LET rest == Skip(s, off)
  IN  IF n < 0 \/ n >= Len(rest) THEN rest ELSE SubSeq(rest, 1, n)

\* the else branch of print_caret and the printing of the caret, for the
\* input line line0, the column column0 of the error in it, a terminal of
\* term columns and ins characters inserted before the line: the line
\* printed, in its three parts, and the column of the caret
print_caret_not_tty(column0, line0, term, ins) ==
  LET column1 == IF column0 >= ins THEN column0 - ins ELSE column0
      error_column_term0 == column1
      term_columns == term - 1
      input_line == IF Len(line0) >= ins THEN Skip(line0, ins) ELSE line0
      input_line_len == chop_whitespace(input_line, Len(input_line))
      error_column == IF column1 > 0 /\ CharAt(input_line, column1) = NUL
                        THEN column1 - 1 ELSE column1
      token_columns == token_len(Skip(input_line, error_column))
      error_end_column == error_column + token_columns - 1
      print_columns0 == input_line_len
      more1a == size_gt(print_columns0, term_columns)
      print_columns1 == IF more1a THEN term_columns ELSE print_columns0
      more0 == size_gt(error_end_column, print_columns1)
      shorten == more1a /\ size_gt(input_line_len - 1, error_end_column)
      more1 == shorten
      print_columns2 == IF shorten THEN print_columns1 - MORE_LEN
                        ELSE print_columns1
      error_column_term == IF more0 THEN print_columns2 - token_columns
                           ELSE error_column_term0
      print_offset == IF more0
                        THEN MORE_LEN + (error_column - error_column_term)
                        ELSE 0
      print_columns == IF more0 THEN print_columns2 - MORE_LEN
                       ELSE print_columns2
      width == IF error_column_term < 0 THEN -error_column_term
               ELSE error_column_term
  IN  [ left |-> IF more0 THEN "..." ELSE "",
        shown |-> precision_s(input_line, print_offset, print_columns),
        right |-> IF more1 THEN "..." ELSE "",
        print_offset |-> print_offset,
        caret |-> width,
        error_column |-> error_column,
        token_columns |-> token_columns,
        in_line |-> error_column < input_line_len,
        wrapped |-> \/ more0 /\ print_columns2 - token_columns < 0
                    \/ more0 /\ error_column - error_column_term < 0
                    \/ print_columns < 0
                    \/ print_columns2 < 0 ]

\* the lines with an error in them
ErrorLines ==
  { "x", "int x", "int *p;", "int x  ", "int x\n", "a bb ccc dddd",
    "abcdefghijkl", "int abcdefghij k", "ab cd ef gh ij kl", "ab cd ef gh) x y" }

\* the columns the parser reports an error at: the start of a token that
\* is not whitespace
ErrorColumns(line) ==
  { i \in 0..(Len(line) - 1) :
      /\ ~isspace(CharAt(line, i))
      /\ i > 0 =>
           \/ isspace(CharAt(line, i - 1))
           \/ isalnum(CharAt(line, i)) # isalnum(CharAt(line, i - 1)) }

\* the widths of the terminal: narrow ones, in which the lines above do not
\* fit, and the default
TermColumns == { 6, 8, 10, 12, 14, 80 }

InitCaret ==
  /\ Idle_rest
  /\ fin = << >>
  /\ ok = TRUE
  /\ opt_explain = FALSE
  /\ Idle_rl
  /\ \E line \in ErrorLines, term \in TermColumns, ins \in { 0, Len(EXPLAIN_SP) } :
       \E column \in ErrorColumns(line) :
         /\ inserted_len = ins
         /\ io_op = [op |-> "none",
                     input_line |-> IF ins > 0 THEN EXPLAIN_SP \o line ELSE line,
                     line |-> line,
                     first_column |-> column + ins,
                     column |-> column,
                     term_columns |-> term]

\* print_caret( error_column ) with is_input_a_tty and opt_interactive false
PrintCaret ==
  /\ io_op.op = "none"
  /\ LET r == print_caret_not_tty(io_op.first_column, io_op.input_line,
                                  io_op.term_columns, inserted_len)
     IN  /\ fout' = << r.left \o r.shown \o r.right \o "\n",
                       Spaces(r.caret), "^", "\n" >>
         /\ io_op' = [op |-> "print_caret", input_line |-> io_op.input_line,
                      line |-> io_op.line,
                      first_column |-> io_op.first_column,
                      column |-> io_op.column,
                      term_columns |-> io_op.term_columns,
                      r |-> r]
  /\ UNCHANGED <<type_vars, ast_vars, fin, sbuf, is_cont_line, ok, cli_vars>>

NextCaret == PrintCaret

SpecCaret == InitCaret /\ [][NextCaret]_vars

\* the character of the printed line at the column of the caret is the
\* character of the input line at the column of the error, the first of
\* the offending token
CaretUnderToken ==
  LET r == io_op.r
      k == r.caret - Len(r.left)
  IN  /\ k >= 0
      /\ k < Len(r.shown)
      /\ r.print_offset + k = io_op.column

\* C27: when the input is not a terminal print_caret prints the input line,
\* shortened if need be, and a caret such that the character of the printed
\* line above the caret is the first character of the offending token, for
\* every line, terminal width, error column and token length, also when the
\* line is shortened with "..." on either side; and none of the unsigned
\* column computations wraps below zero.
C27_CaretUnderToken ==
  io_op.op = "print_caret" =>
    /\ CaretUnderToken
    /\ ~io_op.r.wrapped

\* the caret is under the token whenever the line is printed whole
C27_CaretUnderTokenUnshortened ==
  (io_op.op = "print_caret" /\ io_op.r.left = "" /\ io_op.r.right = "")
    => CaretUnderToken /\ ~io_op.r.wrapped


\* ---------------------------------------------------------------------------
\* prompt.c and the interactive branch of print_caret.  cdecl_prompt and
\* prompt_buf are <<primary, continuation>>; a prompt without colour is
\* modelled.  io_op.shown is the prompt parse_stdin handed to
\* cdecl_read_line for the line the error is in.
\* ---------------------------------------------------------------------------

\* the widest error column tried on a terminal
MaxTtyColumn == 3

\* config.h: PACKAGE and CDECL, and CPPDECL
CDECL == "cdecl"
CPPDECL == "c++decl"

\* prompt_create( suffix ) without colour
prompt_create(lang, suffix) ==
  (IF opt_lang_is_cpp(lang) THEN CPPDECL ELSE CDECL) \o suffix \o " "

\* the interactive branch of print_caret: what is added to the error column
\* and the column the caret is printed at; term_columns is 0 when the size
\* of the terminal is not asked for
print_caret_tty(column0, lang, term_columns, ins) ==
  LET column1 == IF column0 >= ins THEN column0 - ins ELSE column0
      added == Len(IF opt_lang_is_cpp(lang) THEN CPPDECL ELSE CDECL) + 2
      term == column1 + added
  IN  [ added |-> added,
        caret |-> IF term_columns # 0 THEN term % term_columns ELSE term ]

\* the widths get_term_columns_lines() reports, 0 standing for a build
\* without ENABLE_TERM_SIZE
TtyColumns == { 0, 10, 80 }

InitPrompt ==
  /\ Idle_type
  /\ Idle_ast
  /\ Idle_cli
  /\ fin = << >>
  /\ fout = << >>
  /\ sbuf = NULL
  /\ is_cont_line = FALSE
  /\ ok = TRUE
  /\ opt_lang \in KeywordLangs
  /\ io_op = [op |-> "none"]

\* cdecl_prompt_init()
PromptInit ==
  /\ prompt_buf' = << prompt_create(opt_lang, ">"), prompt_create(opt_lang, "+") >>
  /\ cdecl_prompt' = prompt_buf'
  /\ io_op' = [op |-> "cdecl_prompt_init"]
  /\ UNCHANGED <<type_vars, ast_vars, fin, fout, sbuf, is_cont_line, ok>>
  /\ UNCHANGED <<opt_explain, inserted_len, index, text_len, command,
                 more_matches, rl_line_buffer>>

\* cdecl_prompt_enable( enable )
PromptEnable ==
  /\ prompt_buf # << NULL, NULL >>
  /\ \E enable \in BOOLEAN :
       /\ cdecl_prompt' = IF enable THEN prompt_buf ELSE << "", "" >>
       /\ io_op' = [op |-> "cdecl_prompt_enable", enable |-> enable]
  /\ UNCHANGED <<type_vars, ast_vars, fin, fout, sbuf, is_cont_line, ok>>
  /\ UNCHANGED <<opt_explain, inserted_len, index, text_len, command,
                 more_matches, rl_line_buffer, prompt_buf>>

\* parse_stdin on a terminal: cdecl_read_line( &sbuf, cdecl_prompt[0],
\* cdecl_prompt[1] ) shows the primary prompt and a line is typed
PromptReadLine ==
  /\ cdecl_prompt # << NULL, NULL >>
  /\ io_op.op # "read_line"
  /\ fout' = << cdecl_prompt[1] >>
  /\ io_op' = [op |-> "read_line", shown |-> cdecl_prompt[1]]
  /\ UNCHANGED <<type_vars, ast_vars, fin, sbuf, is_cont_line, ok, cli_vars>>

\* the line has an error: print_caret( error_column ) with is_input_a_tty
PromptPrintCaret ==
  /\ io_op.op = "read_line"
  /\ \E column \in 0..MaxTtyColumn, term_columns \in TtyColumns :
       LET r == print_caret_tty(column, opt_lang, term_columns, inserted_len)
       IN  /\ fout' = fout \o << Spaces(r.caret), "^", "\n" >>
           /\ io_op' = [op |-> "print_caret", shown |-> io_op.shown,
                        column |-> column, term_columns |-> term_columns,
                        added |-> r.added, caret |-> r.caret]
  /\ UNCHANGED <<type_vars, ast_vars, fin, sbuf, is_cont_line, ok, cli_vars>>

NextPrompt == PromptInit \/ PromptEnable \/ PromptReadLine \/ PromptPrintCaret

SpecPrompt == InitPrompt /\ [][NextPrompt]_vars

\* C28: on a terminal the caret of print_caret lands under the offending
\* token of the line typed: what print_caret adds to the error column (the
\* length of "cdecl" or "c++decl" plus 2, modulo the width of the terminal)
\* is the length of the prompt that was shown for the line, in every state
\* of the prompt that cdecl_prompt_init and cdecl_prompt_enable lead to.
C28_CaretOffsetIsPromptLength ==
  io_op.op = "print_caret" =>
    /\ io_op.added = Len(io_op.shown)
    /\ io_op.caret =
         IF io_op.term_columns # 0
           THEN (Len(io_op.shown) + io_op.column) % io_op.term_columns
           ELSE Len(io_op.shown) + io_op.column

\* the offset is the length of the prompt whenever the prompt is enabled
C28_CaretOffsetWhenPromptShown ==
  (io_op.op = "print_caret" /\ io_op.shown # "")
    => io_op.added = Len(io_op.shown)

====
